---- MODULE Spec2Model ----
\* LifeFlow rule engine: the subscription lifecycle of RuleEngine, its rule
\* cache, the per-event dispatch loop, the condition evaluator and the action
\* executor, as a state machine.
EXTENDS Integers, Sequences, FiniteSets, TLC

VARIABLES
    isRunning,      \* RuleEngine.isRunning
    unsubscribers,  \* RuleEngine.unsubscribers: ids of the subscriptions held
    rulesCache,     \* RuleEngine.rulesCache: sequence of Rule records
    rolloverHour,   \* RuleEngine.rolloverHour
    subscriptions,  \* event bus: every subscription ever handed out
    dbRules,        \* repository table db.rules: rule id -> stored enabled value
    procs,          \* activations of start() / reloadRules(), in call order
    dispatches,     \* activations of handleEvent, in the order they were started
    notification,   \* window.Notification: "absent" or its permission
    stoppedSince,   \* history: stop() has returned and start() was not called since
    fresh,          \* history: a reload completed and nothing touched rules since
    lastCall,       \* history: the last call made on, or completed by, the engine
    budget,         \* the number of calls the environment may still make
    storeRules,     \* useRulesStore state.rules: rule id -> enabled value held
    storeCalls,     \* activations of the store's createRule / toggleRule
    evaluation      \* a call of the condition evaluator: its arguments and outcome

vars == <<isRunning, unsubscribers, rulesCache, rolloverHour, subscriptions,
          dbRules, procs, dispatches, notification, stoppedSince,
          fresh, lastCall, budget, storeRules, storeCalls, evaluation>>

engineVars == <<isRunning, unsubscribers, rulesCache, rolloverHour>>

storeVars == <<storeRules, storeCalls>>

\* ------------------------------------------------------------------ bounds
\* Calls made on the engine, the repository and the event bus in one run of
\* Spec, and in one run of SpecDispatch.
MaxCalls == 4
MaxEvents == 2

\* ------------------------------------------------------------------ values
\* A JavaScript value is a record tagged with its typeof-like kind. String
\* values carry their characters, so that String.prototype.includes is computed.
Undef == [t |-> "undefined"]
Null == [t |-> "null"]
Fn == [t |-> "function"]
Num(n) == [t |-> "number", v |-> n]
Bool(b) == [t |-> "boolean", v |-> b]
Str(chars) == [t |-> "string", v |-> chars]
Obj(fields) == [t |-> "object", v |-> fields]
Arr(elems) == [t |-> "array", v |-> elems]

\* An error message (EvaluatedRule.error, ActionResult.error); an absent one
\* is Undef. Messages are never compared with payload strings and carry
\* their text whole.
Msg(text) == [t |-> "string", v |-> text]

\* if (x.error): the message is present and not the empty string.
HasText(m) == m.t = "string" /\ m.v # ""

\* JavaScript truthiness of a value.
Truthy(x) ==
    CASE x.t \in {"undefined", "null"} -> FALSE
      [] x.t = "boolean" -> x.v
      [] x.t = "number" -> x.v # 0
      [] x.t = "string" -> x.v # <<>>
      [] OTHER -> TRUE

\* a === b. An object, array or function of a stored rule is never the same
\* reference as one reached from an event payload.
StrictEq(a, b) ==
    /\ a.t = b.t
    /\ CASE a.t \in {"undefined", "null"} -> TRUE
         [] a.t \in {"number", "boolean", "string"} -> a.v = b.v
         [] OTHER -> FALSE

\* ------------------------------------------------------- condition evaluator
\* path.split('.'): a path is a sequence of tokens, each a "." or a maximal
\* run of other characters; the result is the sequence of segments.
RECURSIVE SplitFrom(_, _, _)
SplitFrom(tokens, i, cur) ==
    IF i > Len(tokens) THEN <<cur>>
    ELSE IF tokens[i] = "." THEN <<cur>> \o SplitFrom(tokens, i + 1, "")
    ELSE SplitFrom(tokens, i + 1, cur \o tokens[i])

Split(tokens) == SplitFrom(tokens, 1, "")

\* The array index a property name denotes, or 0 when it denotes none.
ArrayIndex(part) ==
    CASE part = "0" -> 1 [] part = "1" -> 2 [] part = "2" -> 3 [] OTHER -> 0

\* current[part] for a value with typeof current === 'object'.
GetProp(current, part) ==
    CASE current.t = "object" ->
            IF part \in DOMAIN current.v THEN current.v[part] ELSE Undef
      [] current.t = "array" ->
            IF part = "length" THEN Num(Len(current.v))
            ELSE IF ArrayIndex(part) \in 1..Len(current.v)
                 THEN current.v[ArrayIndex(part)] ELSE Undef
      [] OTHER -> Undef

\* Mutant: the walk hands back a primitive it cannot descend into, where the
\* code gives undefined.
RECURSIVE WalkKeepsPrimitive(_, _, _)
WalkKeepsPrimitive(current, parts, i) ==
    IF i > Len(parts) THEN current
    ELSE IF current.t \in {"null", "undefined"} THEN Undef
    ELSE IF current.t \in {"object", "array"}
         THEN WalkKeepsPrimitive(GetProp(current, parts[i]), parts, i + 1)
    ELSE current

\* getNestedValue's loop over the segments, from segment i on.
RECURSIVE Walk(_, _, _)
Walk(current, parts, i) ==
    IF i > Len(parts) THEN current
    ELSE IF current.t \in {"null", "undefined"} THEN Undef
    ELSE IF current.t \in {"object", "array"}
         THEN Walk(GetProp(current, parts[i]), parts, i + 1)
    ELSE Undef

getNestedValue(obj, path) == Walk(obj, Split(path), 1)

\* The RuleContext built for a payload, as the evaluator can reach it.
buildContext(payload) ==
    Obj([payload |-> payload, getActivityById |-> Fn, getHabitById |-> Fn,
         getCurrentTime |-> Fn, getTodayKey |-> Fn])

\* s.includes(sub) on strings.
IsSubstring(sub, s) ==
    \E k \in 0..(Len(s) - Len(sub)) : SubSeq(s, k + 1, k + Len(sub)) = sub

\* [..].includes(x): SameValueZero on each element.
ArrayIncludes(elems, x) == \E k \in 1..Len(elems) : StrictEq(elems[k], x)

\* path.split throws a TypeError when condition.field is not a string.
evaluateConditionThrows(condition) == condition.field.t # "string"

\* Mutant: the ordering operators without their typeof checks, so that null
\* and booleans are converted to numbers as the JavaScript comparison does.
evaluateConditionCoerces(condition, context) ==
    LET actualValue ==
            getNestedValue(Obj([payload |-> context.v.payload, context |-> context]),
                           condition.field.v)
        expectedValue == condition.value
        operator == condition.operator
        converts(x) == x.t \in {"number", "null", "boolean"}
        number(x) == CASE x.t = "number" -> x.v
                       [] x.t = "boolean" -> IF x.v THEN 1 ELSE 0
                       [] OTHER -> 0
        both == converts(actualValue) /\ converts(expectedValue)
    IN CASE operator = "eq" -> StrictEq(actualValue, expectedValue)
         [] operator = "neq" -> ~StrictEq(actualValue, expectedValue)
         [] operator = "gt" -> both /\ number(actualValue) > number(expectedValue)
         [] operator = "gte" -> both /\ number(actualValue) >= number(expectedValue)
         [] operator = "lt" -> both /\ number(actualValue) < number(expectedValue)
         [] operator = "lte" -> both /\ number(actualValue) <= number(expectedValue)
         [] operator = "contains" ->
                IF actualValue.t = "string" /\ expectedValue.t = "string"
                THEN IsSubstring(expectedValue.v, actualValue.v)
                ELSE IF actualValue.t = "array"
                     THEN ArrayIncludes(actualValue.v, expectedValue)
                ELSE FALSE
         [] OTHER -> FALSE

\* Mutant: contains looks at strings only.
evaluateConditionContainsStringsOnly(condition, context) ==
    LET actualValue ==
            getNestedValue(Obj([payload |-> context.v.payload, context |-> context]),
                           condition.field.v)
        expectedValue == condition.value
        operator == condition.operator
        bothNumbers == actualValue.t = "number" /\ expectedValue.t = "number"
    IN CASE operator = "eq" -> StrictEq(actualValue, expectedValue)
         [] operator = "neq" -> ~StrictEq(actualValue, expectedValue)
         [] operator = "gt" -> bothNumbers /\ actualValue.v > expectedValue.v
         [] operator = "gte" -> bothNumbers /\ actualValue.v >= expectedValue.v
         [] operator = "lt" -> bothNumbers /\ actualValue.v < expectedValue.v
         [] operator = "lte" -> bothNumbers /\ actualValue.v <= expectedValue.v
         [] operator = "contains" ->
                /\ actualValue.t = "string" /\ expectedValue.t = "string"
                /\ IsSubstring(expectedValue.v, actualValue.v)
         [] OTHER -> FALSE

\* Mutant: gte compares as gt does.
evaluateConditionStrictGte(condition, context) ==
    LET actualValue ==
            getNestedValue(Obj([payload |-> context.v.payload, context |-> context]),
                           condition.field.v)
        expectedValue == condition.value
        operator == condition.operator
        bothNumbers == actualValue.t = "number" /\ expectedValue.t = "number"
    IN CASE operator = "eq" -> StrictEq(actualValue, expectedValue)
         [] operator = "neq" -> ~StrictEq(actualValue, expectedValue)
         [] operator = "gt" -> bothNumbers /\ actualValue.v > expectedValue.v
         [] operator = "gte" -> bothNumbers /\ actualValue.v > expectedValue.v
         [] operator = "lt" -> bothNumbers /\ actualValue.v < expectedValue.v
         [] operator = "lte" -> bothNumbers /\ actualValue.v <= expectedValue.v
         [] operator = "contains" ->
                IF actualValue.t = "string" /\ expectedValue.t = "string"
                THEN IsSubstring(expectedValue.v, actualValue.v)
                ELSE IF actualValue.t = "array"
                     THEN ArrayIncludes(actualValue.v, expectedValue)
                ELSE FALSE
         [] OTHER -> FALSE

evaluateCondition(condition, context) ==
    LET actualValue ==
            getNestedValue(Obj([payload |-> context.v.payload, context |-> context]),
                           condition.field.v)
        expectedValue == condition.value
        operator == condition.operator
        bothNumbers == actualValue.t = "number" /\ expectedValue.t = "number"
    IN CASE operator = "eq" -> StrictEq(actualValue, expectedValue)
         [] operator = "neq" -> ~StrictEq(actualValue, expectedValue)
         [] operator = "gt" -> bothNumbers /\ actualValue.v > expectedValue.v
         [] operator = "gte" -> bothNumbers /\ actualValue.v >= expectedValue.v
         [] operator = "lt" -> bothNumbers /\ actualValue.v < expectedValue.v
         [] operator = "lte" -> bothNumbers /\ actualValue.v <= expectedValue.v
         [] operator = "contains" ->
                IF actualValue.t = "string" /\ expectedValue.t = "string"
                THEN IsSubstring(expectedValue.v, actualValue.v)
                ELSE IF actualValue.t = "array"
                     THEN ArrayIncludes(actualValue.v, expectedValue)
                ELSE FALSE
         [] OTHER -> FALSE

\* conditions.every(...): stops at the first condition that is false; a
\* condition that throws before that makes the whole call throw.
RECURSIVE EveryFrom(_, _, _)
EveryFrom(conditions, context, i) ==
    IF i > Len(conditions) THEN [threw |-> FALSE, value |-> TRUE]
    ELSE IF evaluateConditionThrows(conditions[i])
         THEN [threw |-> TRUE, value |-> FALSE]
    ELSE IF ~evaluateCondition(conditions[i], context)
         THEN [threw |-> FALSE, value |-> FALSE]
    ELSE EveryFrom(conditions, context, i + 1)

\* Mutant: conditions.some in place of conditions.every.
evaluateConditionsSome(conditions, context) ==
    IF \E i \in DOMAIN conditions : evaluateConditionThrows(conditions[i])
    THEN [threw |-> TRUE, value |-> FALSE]
    ELSE [threw |-> FALSE,
          value |-> \E i \in DOMAIN conditions : evaluateCondition(conditions[i], context)]

evaluateConditions(conditions, context) ==
    IF Len(conditions) = 0 THEN [threw |-> FALSE, value |-> TRUE]
    ELSE EveryFrom(conditions, context, 1)

\* ------------------------------------------------- calls of the evaluator
\* A call of getNestedValue, evaluateCondition or evaluateConditions made
\* directly, as the unit tests make them.
\*   fn          the function called
\*   path        getNestedValue: the path
\*   conditions  evaluateCondition: the one condition; evaluateConditions: the list
\*   payload     the payload of the context the call is given
\*   pc          "called", then "returned" or "threw"
\*   value       what evaluateCondition / evaluateConditions returned
\*   actual      what getNestedValue returned for the path (of the condition)
NoEvaluation ==
    [fn |-> "none", path |-> <<>>, conditions |-> <<>>, payload |-> Undef,
     pc |-> "returned", value |-> FALSE, actual |-> Undef]

EvaluatorCall(fn, path, conditions, payload) ==
    [fn |-> fn, path |-> path, conditions |-> conditions, payload |-> payload,
     pc |-> "called", value |-> FALSE, actual |-> Undef]

\* The object evaluateCondition walks: { payload: context.payload, context }.
Root(payload) == Obj([payload |-> payload, context |-> buildContext(payload)])

GetNestedValue ==
    /\ evaluation.fn = "getNestedValue"
    /\ evaluation.pc = "called"
    /\ evaluation' = [evaluation EXCEPT
          !.pc = "returned",
          !.actual = getNestedValue(Root(evaluation.payload), evaluation.path)]
    /\ UNCHANGED <<engineVars, subscriptions, dbRules, procs, dispatches, notification,
                   stoppedSince, fresh, lastCall, budget, storeVars>>

EvaluateCondition ==
    LET condition == evaluation.conditions[1]
    IN /\ evaluation.fn = "evaluateCondition"
       /\ evaluation.pc = "called"
       /\ evaluation' =
            IF evaluateConditionThrows(condition)
            THEN [evaluation EXCEPT !.pc = "threw"]
            ELSE [evaluation EXCEPT
                    !.pc = "returned",
                    !.value = evaluateCondition(condition, buildContext(evaluation.payload)),
                    !.actual = getNestedValue(Root(evaluation.payload), condition.field.v)]
       /\ UNCHANGED <<engineVars, subscriptions, dbRules, procs, dispatches, notification,
                      stoppedSince, fresh, lastCall, budget, storeVars>>

EvaluateConditions ==
    LET outcome == evaluateConditions(evaluation.conditions,
                                      buildContext(evaluation.payload))
    IN /\ evaluation.fn = "evaluateConditions"
       /\ evaluation.pc = "called"
       /\ evaluation' = [evaluation EXCEPT
             !.pc = IF outcome.threw THEN "threw" ELSE "returned",
             !.value = outcome.value]
       /\ UNCHANGED <<engineVars, subscriptions, dbRules, procs, dispatches, notification,
                      stoppedSince, fresh, lastCall, budget, storeVars>>

\* ------------------------------------------------------------ action executor
\* What the synchronous prefix of an action handler, or its resumption after an
\* awaited collaborator, comes to: an ActionResult, a thrown error (the
\* handler's promise rejects), or a suspension on a collaborator.
Returned(result) == [kind |-> "result", result |-> result]
Threw(text) == [kind |-> "throw", error |-> Msg(text)]
Awaiting(collaborator) == [kind |-> "await", on |-> collaborator]

Success(type, data) ==
    [actionType |-> type, success |-> TRUE, error |-> Undef, data |-> data]
Failure(type, text) ==
    [actionType |-> type, success |-> FALSE, error |-> Msg(text), data |-> Undef]

\* Reading a property of params throws when params is undefined or null.
ParamsThrow(params) == params.t \in {"undefined", "null"}
ParamsError == "TypeError: Cannot read properties of undefined"

\* new Notification(...) followed by the success return, inside the try block.
ShowNotification(ctorThrows) ==
    IF ctorThrows THEN Returned(Failure("NOTIFY", "TypeError: Illegal constructor"))
    ELSE Returned(Success("NOTIFY", Undef))

\* Mutant: executeNotify asks for the permission also when it was denied.
executeNotifyAsksAgain(params, permission, ctorThrows) ==
    IF ParamsThrow(params) THEN Threw(ParamsError)
    ELSE IF permission = "absent"
         THEN Returned(Failure("NOTIFY", "Bildirim izni verilmedi"))
    ELSE IF permission = "granted" THEN ShowNotification(ctorThrows)
    ELSE Awaiting("requestPermission")

executeNotify(params, permission, ctorThrows) ==
    IF ParamsThrow(params) THEN Threw(ParamsError)
    ELSE IF permission = "absent"
         THEN Returned(Failure("NOTIFY", "Bildirim izni verilmedi"))
    ELSE IF permission = "granted" THEN ShowNotification(ctorThrows)
    ELSE IF permission # "denied" THEN Awaiting("requestPermission")
    ELSE Returned(Failure("NOTIFY", "Bildirim izni verilmedi"))

\* executeNotify after Notification.requestPermission() has settled: answer is
\* the permission it resolved with, or "rejected".
executeNotifyResume(answer, ctorThrows) ==
    IF answer = "rejected" THEN Returned(Failure("NOTIFY", "Error: permission request failed"))
    ELSE IF answer = "granted" THEN ShowNotification(ctorThrows)
    ELSE Returned(Failure("NOTIFY", "Bildirim izni verilmedi"))

executeLogMessage(params) ==
    IF ParamsThrow(params) THEN Threw(ParamsError)
    ELSE Returned(Success("LOG_MESSAGE", Obj([message |-> GetProp(params, "message")])))

\* Mutant: executeStartTimer without the check of activityId.
executeStartTimerNoValidation(params) ==
    IF ParamsThrow(params) THEN Threw(ParamsError)
    ELSE Awaiting("startTimer")

executeStartTimer(params) ==
    IF ParamsThrow(params) THEN Threw(ParamsError)
    ELSE IF ~Truthy(GetProp(params, "activityId"))
         THEN Returned(Failure("START_TIMER", "activityId gerekli"))
    ELSE Awaiting("startTimer")

\* executeStartTimer after the dynamic import and startTimer have settled:
\* outcome is the timer id returned, or Undef when either one threw.
executeStartTimerResume(outcome) ==
    IF outcome.t = "undefined"
    THEN Returned(Failure("START_TIMER", "Error: timer could not be started"))
    ELSE Returned(Success("START_TIMER", Obj([timerId |-> outcome])))

executeTriggerBreak(params) ==
    IF ParamsThrow(params) THEN Threw(ParamsError)
    ELSE LET duration == IF Truthy(GetProp(params, "duration"))
                         THEN GetProp(params, "duration") ELSE Num(5 * 60)
             isLongBreak == IF Truthy(GetProp(params, "isLongBreak"))
                            THEN GetProp(params, "isLongBreak") ELSE Bool(FALSE)
         IN Returned(Success("TRIGGER_BREAK",
                Obj([duration |-> duration, isLongBreak |-> isLongBreak])))

\* Mutant: executeAction throws for a type it has no handler for.
executeActionThrowsOnUnknown(action, permission, ctorThrows) ==
    CASE action.type = "NOTIFY" -> executeNotify(action.params, permission, ctorThrows)
      [] action.type = "LOG_MESSAGE" -> executeLogMessage(action.params)
      [] action.type = "START_TIMER" -> executeStartTimer(action.params)
      [] action.type = "TRIGGER_BREAK" -> executeTriggerBreak(action.params)
      [] OTHER -> Threw("Bilinmeyen aksiyon turu: " \o action.type)

executeAction(action, permission, ctorThrows) ==
    CASE action.type = "NOTIFY" -> executeNotify(action.params, permission, ctorThrows)
      [] action.type = "LOG_MESSAGE" -> executeLogMessage(action.params)
      [] action.type = "START_TIMER" -> executeStartTimer(action.params)
      [] action.type = "TRIGGER_BREAK" -> executeTriggerBreak(action.params)
      [] OTHER -> Returned(Failure(action.type, "Bilinmeyen aksiyon turu: " \o action.type))

\* ------------------------------------------------------------------- inputs
\* The closed trigger set, in the order subscribeToEvents walks it.
EventTypes ==
    <<"TIMER_STARTED", "TIMER_STOPPED", "SESSION_CREATED", "HABIT_CHECKED",
      "POMODORO_COMPLETED", "GOAL_REACHED", "DAY_ROLLOVER">>

LogAction(params) == [type |-> "LOG_MESSAGE", params |-> params]

\* The rules the repository can hold, by id (the primary key); RuleIds lists
\* the ids in primary-key order. r1 and r5 are RULE_TEMPLATES entries; r2 has a
\* condition whose field is no string; the second action of r4 has no params;
\* the second action of r6 is a START_TIMER whose params are {}; the second
\* action of r7 has a type executeAction has no handler for; r8 has a
\* condition and no action.
RuleIds == <<"r1", "r2", "r3", "r4", "r5", "r6", "r7", "r8">>

Catalog ==
    [r1 |-> [name |-> "pomodoro-notify", trigger |-> "POMODORO_COMPLETED",
             conditions |-> <<>>,
             actions |-> <<[type |-> "NOTIFY",
                            params |-> Obj([title |-> Str(<<"d", "o", "n", "e">>),
                                            body |-> Str(<<>>)])]>>],
     r2 |-> [name |-> "broken-condition", trigger |-> "POMODORO_COMPLETED",
             conditions |-> <<[field |-> Undef, operator |-> "eq", value |-> Num(1)]>>,
             actions |-> <<LogAction(Obj([message |-> Str(<<"n", "o", "n", "e">>)]))>>],
     r3 |-> [name |-> "pomodoro-break", trigger |-> "POMODORO_COMPLETED",
             conditions |-> <<>>,
             actions |-> <<LogAction(Obj([message |-> Str(<<"r", "e", "s", "t">>)])),
                           [type |-> "TRIGGER_BREAK",
                            params |-> Obj([isLongBreak |-> Bool(TRUE)])]>>],
     r4 |-> [name |-> "session-timer", trigger |-> "SESSION_CREATED",
             conditions |-> <<>>,
             actions |-> <<[type |-> "START_TIMER",
                            params |-> Obj([activityId |-> Str(<<"a", "c", "t", "1">>)])],
                           LogAction(Undef)>>],
     r5 |-> [name |-> "session-to-habit", trigger |-> "SESSION_CREATED",
             conditions |-> <<[field |-> Str(<<"payload", ".", "session", ".", "durationSec">>),
                               operator |-> "gte", value |-> Num(1800)]>>,
             actions |-> <<LogAction(Obj([message |-> Str(<<"g", "o", "a", "l">>)]))>>],
     r6 |-> [name |-> "session-steps", trigger |-> "SESSION_CREATED",
             conditions |-> <<>>,
             actions |-> <<LogAction(Obj([message |-> Str(<<"s", "t", "e", "p">>)])),
                           [type |-> "START_TIMER", params |-> Obj(<<>>)],
                           [type |-> "TRIGGER_BREAK", params |-> Obj(<<>>)]>>],
     r7 |-> [name |-> "goal-mail", trigger |-> "GOAL_REACHED",
             conditions |-> <<>>,
             actions |-> <<LogAction(Obj([message |-> Str(<<"g", "o", "a", "l">>)])),
                           [type |-> "SEND_EMAIL", params |-> Obj(<<>>)],
                           LogAction(Obj([message |-> Str(<<"s", "e", "n", "t">>)]))>>],
     r8 |-> [name |-> "habit-watch", trigger |-> "HABIT_CHECKED",
             conditions |-> <<[field |-> Str(<<"payload", ".", "done">>),
                               operator |-> "eq", value |-> Bool(TRUE)]>>,
             actions |-> <<>>]]

\* The Rule record stored under id with the given enabled value.
RuleOf(id, enabled) ==
    [id |-> id, name |-> Catalog[id].name, trigger |-> Catalog[id].trigger,
     conditions |-> Catalog[id].conditions, actions |-> Catalog[id].actions,
     enabled |-> enabled]

\* The publications: an event type and its payload.
Event(eventType, payload) == [eventType |-> eventType, payload |-> payload]

Events ==
    {Event("SESSION_CREATED", Obj([session |-> Obj([durationSec |-> Num(2000)])])),
     Event("SESSION_CREATED", Obj([session |-> Obj([durationSec |-> Num(1000)])])),
     Event("POMODORO_COMPLETED", Obj([count |-> Num(4)])),
     Event("DAY_ROLLOVER", Obj([date |-> Str(<<"1", "1">>)]))}

\* Values start() is called with.
RolloverHours == {4, 0}

\* ---------------------------------------------------------------- repository
\* db.rules maps each id to the stored rule's enabled value, or to Absent.
Absent == [t |-> "absent"]
EnabledValues == {Num(1), Num(0), Bool(TRUE), Bool(FALSE)}

\* db.rules.where('enabled').equals(1).toArray(): the records whose enabled
\* key is the number 1, in primary-key order.
EnabledQuery(db) ==
    LET hit == SelectSeq(RuleIds, LAMBDA id : db[id] = Num(1))
    IN [k \in 1..Len(hit) |-> RuleOf(hit[k], db[hit[k]])]

\* -------------------------------------------------------------------- engine
\* An activation of start() or reloadRules() that has not returned yet; procs
\* holds them in call order.
\*   pc      "query": inside loadRules, awaiting the repository query;
\*           "loaded": loadRules has returned, the caller's await is pending
\*   snap    the rules the query selects
\*   failed  the query rejected
\*   stale   history: the repository was written after the query was issued
\*   latest  history: no other loadRules has assigned the cache since this one
\*   caller  the activation of the rules store that awaits this reloadRules(),
\*           or 0
NewProc(kind, snap) ==
    [kind |-> kind, pc |-> "query", snap |-> snap, failed |-> FALSE,
     stale |-> FALSE, latest |-> FALSE, caller |-> 0, current |-> TRUE]

\* The activations of loadRules once one more has issued its query with the
\* result snap. The field current of an activation is history: its query has
\* the result of the most recently issued query.
Issued(running, proc) ==
    Append([p \in DOMAIN running |->
               [running[p] EXCEPT !.current = (running[p].snap = proc.snap)]],
           proc)

\* The history record of a call: op is "start", "stop", "reload", "write" or
\* "publish" when the call was made, "startDone" or "reloadDone" when it
\* completed after its awaits.
\*   noop     start() found the engine Running / stop() found it Stopped
\*   started  the number of dispatches a publication started
\*   failed   the completed call's repository query had rejected
\*   own      the completed call's loadRules was the last to assign the cache
\*   pending  the number of activations that had not returned when stop() was called
\*   status   what getStatus() returned
Call(op) ==
    [op |-> op, eventType |-> "none", noop |-> FALSE, started |-> 0,
     failed |-> FALSE, own |-> FALSE, pending |-> 0,
     status |-> [isRunning |-> FALSE, ruleCount |-> 0]]

\* The activations of handleEvent and testRule that have not returned.
Pending == {d \in DOMAIN dispatches : dispatches[d].pc # "done"}

Remove(seq, i) == SubSeq(seq, 1, i - 1) \o SubSeq(seq, i + 1, Len(seq))

\* Mutant: getStatus() counts the enabled rules of the repository.
getStatusCountsRepository ==
    [isRunning |-> isRunning, ruleCount |-> Len(EnabledQuery(dbRules))]

\* getStatus()
getStatus == [isRunning |-> isRunning, ruleCount |-> Len(rulesCache)]

\* A call of getStatus(); the caller keeps what it returned.
GetStatus ==
    /\ budget > 0
    /\ budget' = budget - 1
    /\ lastCall' = [Call("getStatus") EXCEPT !.status = getStatus]
    /\ UNCHANGED <<storeVars, evaluation, engineVars, subscriptions, dbRules, procs, dispatches,
                   notification, stoppedSince, fresh>>

\* Mutant: start() without its isRunning guard.
StartCallUnguarded(hour) ==
    /\ budget > 0
    /\ budget' = budget - 1
    /\ stoppedSince' = FALSE
    /\ rolloverHour' = hour
    /\ procs' = Issued(procs, NewProc("start", EnabledQuery(dbRules)))
    /\ lastCall' = [Call("start") EXCEPT !.noop = isRunning]
    /\ UNCHANGED <<storeVars, evaluation, isRunning, unsubscribers, rulesCache, subscriptions, dbRules,
                   dispatches, notification, fresh>>

\* start(rolloverHour), up to its await of loadRules(); loadRules runs up to
\* its await of the repository query.
StartCall(hour) ==
    /\ budget > 0
    /\ budget' = budget - 1
    /\ stoppedSince' = FALSE
    /\ IF isRunning
       THEN UNCHANGED <<storeVars, evaluation, rolloverHour, procs>>
       ELSE /\ rolloverHour' = hour
            /\ procs' = Issued(procs, NewProc("start", EnabledQuery(dbRules)))
    /\ lastCall' = [Call("start") EXCEPT !.noop = isRunning]
    /\ UNCHANGED <<storeVars, evaluation, isRunning, unsubscribers, rulesCache, subscriptions, dbRules,
                   dispatches, notification, fresh>>

\* reloadRules(), up to the await of the repository query inside loadRules.
ReloadCall ==
    /\ budget > 0
    /\ budget' = budget - 1
    /\ procs' = Issued(procs, NewProc("reload", EnabledQuery(dbRules)))
    /\ lastCall' = Call("reload")
    /\ UNCHANGED <<storeVars, evaluation, engineVars, subscriptions, dbRules, dispatches,
                   notification, stoppedSince, fresh>>

\* Mutant: loadRules without its catch block: a rejected query ends the
\* activation and leaves the cache as it was.
LoadSettleNoCatch(p, ok) ==
    /\ procs[p].pc = "query"
    /\ rulesCache' = IF ok THEN procs[p].snap ELSE rulesCache
    /\ procs' = IF ok
                THEN [q \in DOMAIN procs |->
                        IF q = p THEN [procs[q] EXCEPT !.pc = "loaded", !.latest = TRUE]
                        ELSE [procs[q] EXCEPT !.latest = FALSE]]
                ELSE Remove(procs, p)
    /\ fresh' = FALSE
    /\ UNCHANGED <<storeVars, evaluation, isRunning, unsubscribers, rolloverHour, subscriptions, dbRules,
                   dispatches, notification, stoppedSince, lastCall, budget>>

\* Mutant: loadRules appends the query result to the cache.
LoadSettleAppends(p, ok) ==
    /\ procs[p].pc = "query"
    /\ rulesCache' = IF ok THEN rulesCache \o procs[p].snap ELSE <<>>
    /\ procs' = [q \in DOMAIN procs |->
                    IF q = p THEN [procs[q] EXCEPT !.pc = "loaded", !.failed = ~ok,
                                                   !.latest = TRUE]
                    ELSE [procs[q] EXCEPT !.latest = FALSE]]
    /\ fresh' = FALSE
    /\ UNCHANGED <<storeVars, evaluation, isRunning, unsubscribers, rolloverHour, subscriptions, dbRules,
                   dispatches, notification, stoppedSince, lastCall, budget>>

\* loadRules after its query settled: the cache is replaced by the result, or
\* by the empty list when the query rejected.
LoadSettle(p, ok) ==
    /\ procs[p].pc = "query"
    /\ rulesCache' = IF ok THEN procs[p].snap ELSE <<>>
    /\ procs' = [q \in DOMAIN procs |->
                    IF q = p THEN [procs[q] EXCEPT !.pc = "loaded", !.failed = ~ok,
                                                   !.latest = TRUE]
                    ELSE [procs[q] EXCEPT !.latest = FALSE]]
    /\ fresh' = FALSE
    /\ UNCHANGED <<storeVars, evaluation, isRunning, unsubscribers, rolloverHour, subscriptions, dbRules,
                   dispatches, notification, stoppedSince, lastCall, budget>>

\* Mutant: the loop over the event types stops one short.
subscribeToEventsSkipsLast ==
    LET n == Len(subscriptions)
    IN /\ subscriptions' = subscriptions \o
               [k \in 1..(Len(EventTypes) - 1) |->
                   [eventType |-> EventTypes[k], live |-> TRUE, unsubCalls |-> 0]]
       /\ unsubscribers' = unsubscribers \o [k \in 1..(Len(EventTypes) - 1) |-> n + k]

\* eventBus.subscribe for each event type, each subscription pushed.
subscribeToEvents ==
    LET n == Len(subscriptions)
    IN /\ subscriptions' = subscriptions \o
               [k \in 1..Len(EventTypes) |->
                   [eventType |-> EventTypes[k], live |-> TRUE, unsubCalls |-> 0]]
       /\ unsubscribers' = unsubscribers \o [k \in 1..Len(EventTypes) |-> n + k]

\* start() after loadRules() returned.
StartResume(p) ==
    /\ procs[p].kind = "start"
    /\ procs[p].pc = "loaded"
    /\ subscribeToEvents
    /\ isRunning' = TRUE
    /\ procs' = Remove(procs, p)
    /\ lastCall' = [Call("startDone") EXCEPT !.failed = procs[p].failed,
                                             !.own = procs[p].latest]
    /\ UNCHANGED <<storeVars, evaluation, rulesCache, rolloverHour, dbRules, dispatches,
                   notification, stoppedSince, fresh, budget>>

\* Mutant: reloadRules() ends by marking the engine Running.
ReloadResumeRestarts(p) ==
    /\ procs[p].kind = "reload"
    /\ procs[p].pc = "loaded"
    /\ procs' = Remove(procs, p)
    /\ fresh' = (~procs[p].failed /\ ~procs[p].stale /\ procs[p].latest)
    /\ lastCall' = [Call("reloadDone") EXCEPT !.failed = procs[p].failed,
                                              !.own = procs[p].latest]
    /\ isRunning' = TRUE
    /\ UNCHANGED <<storeVars, evaluation, unsubscribers, rulesCache, rolloverHour, subscriptions, dbRules,
                   dispatches, notification, stoppedSince, budget>>

\* reloadRules() after loadRules() returned.
ReloadResume(p) ==
    /\ procs[p].kind = "reload"
    /\ procs[p].pc = "loaded"
    /\ procs' = Remove(procs, p)
    /\ fresh' = (~procs[p].failed /\ ~procs[p].stale /\ procs[p].latest)
    /\ lastCall' = [Call("reloadDone") EXCEPT !.failed = procs[p].failed,
                                              !.own = procs[p].latest]
    /\ UNCHANGED <<storeVars, evaluation, engineVars, subscriptions, dbRules, dispatches,
                   notification, stoppedSince, budget>>

\* Mutant: stop() unsubscribes but keeps its subscription list.
StopKeepsList ==
    /\ budget > 0
    /\ budget' = budget - 1
    /\ subscriptions' =
           [i \in DOMAIN subscriptions |->
               LET n == Cardinality({k \in DOMAIN unsubscribers : unsubscribers[k] = i})
               IN IF n = 0 THEN subscriptions[i]
                  ELSE [subscriptions[i] EXCEPT !.live = FALSE, !.unsubCalls = @ + n]]
    /\ isRunning' = FALSE
    /\ stoppedSince' = TRUE
    /\ lastCall' = [Call("stop") EXCEPT !.noop = ~isRunning,
                                        !.pending = Cardinality(Pending)]
    /\ UNCHANGED <<storeVars, evaluation, unsubscribers, rulesCache, rolloverHour, dbRules, procs,
                   dispatches, notification, fresh>>

\* Mutant: stop() also empties the rule cache.
StopClearsCache ==
    /\ budget > 0
    /\ budget' = budget - 1
    /\ subscriptions' =
           [i \in DOMAIN subscriptions |->
               LET n == Cardinality({k \in DOMAIN unsubscribers : unsubscribers[k] = i})
               IN IF n = 0 THEN subscriptions[i]
                  ELSE [subscriptions[i] EXCEPT !.live = FALSE, !.unsubCalls = @ + n]]
    /\ unsubscribers' = <<>>
    /\ rulesCache' = <<>>
    /\ isRunning' = FALSE
    /\ stoppedSince' = TRUE
    /\ fresh' = FALSE
    /\ lastCall' = [Call("stop") EXCEPT !.noop = ~isRunning,
                                        !.pending = Cardinality(Pending)]
    /\ UNCHANGED <<storeVars, evaluation, rolloverHour, dbRules, procs,
                   dispatches, notification>>

\* Mutant: stop() also abandons the activations of handleEvent in flight.
StopCancelsDispatches ==
    /\ budget > 0
    /\ budget' = budget - 1
    /\ subscriptions' =
           [i \in DOMAIN subscriptions |->
               LET n == Cardinality({k \in DOMAIN unsubscribers : unsubscribers[k] = i})
               IN IF n = 0 THEN subscriptions[i]
                  ELSE [subscriptions[i] EXCEPT !.live = FALSE, !.unsubCalls = @ + n]]
    /\ unsubscribers' = <<>>
    /\ isRunning' = FALSE
    /\ stoppedSince' = TRUE
    /\ lastCall' = [Call("stop") EXCEPT !.noop = ~isRunning,
                                        !.pending = Cardinality(Pending)]
    /\ dispatches' = [d \in DOMAIN dispatches |->
                         IF d \in Pending THEN [dispatches[d] EXCEPT !.pc = "cancelled"]
                         ELSE dispatches[d]]
    /\ UNCHANGED <<storeVars, evaluation, rulesCache, rolloverHour, dbRules, procs, notification, fresh>>

\* stop()
Stop ==
    /\ budget > 0
    /\ budget' = budget - 1
    /\ subscriptions' =
           [i \in DOMAIN subscriptions |->
               LET n == Cardinality({k \in DOMAIN unsubscribers : unsubscribers[k] = i})
               IN IF n = 0 THEN subscriptions[i]
                  ELSE [subscriptions[i] EXCEPT !.live = FALSE, !.unsubCalls = @ + n]]
    /\ unsubscribers' = <<>>
    /\ isRunning' = FALSE
    /\ stoppedSince' = TRUE
    /\ lastCall' = [Call("stop") EXCEPT !.noop = ~isRunning,
                                        !.pending = Cardinality(Pending)]
    /\ UNCHANGED <<storeVars, evaluation, rulesCache, rolloverHour, dbRules, procs, dispatches,
                   notification, fresh>>

\* A write to the repository by the rules store: add or update stores a
\* record with the given enabled value, delete removes it.
DbWrite(id, value) ==
    /\ budget > 0
    /\ budget' = budget - 1
    /\ dbRules[id] # value
    /\ dbRules' = [dbRules EXCEPT ![id] = value]
    /\ procs' = [p \in DOMAIN procs |-> [procs[p] EXCEPT !.stale = TRUE]]
    /\ fresh' = FALSE
    /\ lastCall' = Call("write")
    /\ UNCHANGED <<storeVars, evaluation, engineVars, subscriptions, dispatches, notification,
                   stoppedSince>>

\* --------------------------------------------------------------- rules store
\* An activation of initialize, createRule, updateRule or deleteRule, or of
\* toggleRule and the updateRule it runs; storeCalls holds them in call order.
\*   op      "initialize", "createRule", "updateRule", "deleteRule" or
\*           "toggleRule"
\*   id      the rule's id ("none" for initialize)
\*   value   the enabled value the activation writes; for initialize, the
\*           result of its db.rules.toArray()
\*   read    history: the enabled value toggleRule found in the store
\*   pc      "read": awaiting db.rules.toArray(); "db": awaiting db.rules.add /
\*           db.rules.update / db.rules.delete; "reload": awaiting
\*           ruleEngine.reloadRules(); "done": returned; "raised": the
\*           repository call rejected
StoreCall(op, id, value, read, pc) ==
    [op |-> op, id |-> id, value |-> value, read |-> read, pc |-> pc]

\* The store as created: rules: [], and no action called.
StoreIdle ==
    /\ storeRules = [id \in {RuleIds[i] : i \in DOMAIN RuleIds} |-> Absent]
    /\ storeCalls = <<>>

\* createRule(data) up to its await of db.rules.add: generateId() gives an id
\* no rule has, and the rule's enabled is data.enabled ?? true.
CreateRule(id, enabled) ==
    /\ budget > 0
    /\ budget' = budget - 1
    /\ dbRules[id] = Absent
    /\ storeRules[id] = Absent
    /\ \A c \in DOMAIN storeCalls : storeCalls[c].id # id
    /\ storeCalls' = Append(storeCalls,
           StoreCall("createRule", id,
                     IF enabled.t \in {"undefined", "null"} THEN Bool(TRUE) ELSE enabled,
                     Absent, "db"))
    /\ UNCHANGED <<engineVars, subscriptions, dbRules, procs, dispatches, notification,
                   stoppedSince, fresh, lastCall, storeRules, evaluation>>

\* toggleRule(id) up to its return when the store has no such rule, or up to
\* the await of db.rules.update inside updateRule(id, { enabled: !rule.enabled }).
ToggleRule(id) ==
    LET rule == storeRules[id]
    IN /\ budget > 0
       /\ budget' = budget - 1
       /\ storeCalls' = Append(storeCalls,
              IF rule = Absent
              THEN StoreCall("toggleRule", id, Absent, Absent, "done")
              ELSE StoreCall("toggleRule", id, Bool(~Truthy(rule)), rule, "db"))
       /\ UNCHANGED <<engineVars, subscriptions, dbRules, procs, dispatches, notification,
                      stoppedSince, fresh, lastCall, storeRules, evaluation>>

\* initialize() up to its await of db.rules.toArray().
Initialize ==
    /\ budget > 0
    /\ budget' = budget - 1
    /\ storeCalls' = Append(storeCalls,
           StoreCall("initialize", "none", dbRules, Absent, "read"))
    /\ UNCHANGED <<engineVars, subscriptions, dbRules, procs, dispatches, notification,
                   stoppedSince, fresh, lastCall, storeRules, evaluation>>

\* initialize() after its query settled: set({ rules, isLoading: false })
\* replaces the list by the query result; a rejected query is logged and
\* leaves the list as it is.
InitializeSettle(c, ok) ==
    /\ storeCalls[c].pc = "read"
    /\ storeRules' = IF ok THEN storeCalls[c].value ELSE storeRules
    /\ storeCalls' = [storeCalls EXCEPT ![c].pc = IF ok THEN "done" ELSE "raised"]
    /\ UNCHANGED <<engineVars, subscriptions, dbRules, procs, dispatches, notification,
                   stoppedSince, fresh, lastCall, budget, evaluation>>

\* updateRule(id, { enabled }) up to its await of db.rules.update.
UpdateRule(id, enabled) ==
    /\ budget > 0
    /\ budget' = budget - 1
    /\ storeCalls' = Append(storeCalls, StoreCall("updateRule", id, enabled, Absent, "db"))
    /\ UNCHANGED <<engineVars, subscriptions, dbRules, procs, dispatches, notification,
                   stoppedSince, fresh, lastCall, storeRules, evaluation>>

\* deleteRule(id) up to its await of db.rules.delete.
DeleteRule(id) ==
    /\ budget > 0
    /\ budget' = budget - 1
    /\ storeCalls' = Append(storeCalls, StoreCall("deleteRule", id, Absent, Absent, "db"))
    /\ UNCHANGED <<engineVars, subscriptions, dbRules, procs, dispatches, notification,
                   stoppedSince, fresh, lastCall, storeRules, evaluation>>

\* createRule / updateRule / deleteRule after the repository write settled:
\* on success the record is in the repository (update changes a stored record
\* only) or gone from it, the store's list is set (map changes a listed rule
\* only), and ruleEngine.reloadRules() runs up to the await of its query; a
\* rejected write ends the activation.
StoreWriteSettle(c, ok) ==
    LET call == storeCalls[c]
        written(old) == IF call.op = "deleteRule" THEN Absent
                        ELSE IF call.op = "createRule" \/ old # Absent THEN call.value
                        ELSE old
    IN /\ call.pc = "db"
       /\ IF ok
          THEN /\ dbRules' = [dbRules EXCEPT ![call.id] = written(@)]
               /\ storeRules' = [storeRules EXCEPT ![call.id] = written(@)]
               /\ procs' = Issued([p \in DOMAIN procs |-> [procs[p] EXCEPT !.stale = TRUE]],
                                  [NewProc("reload", EnabledQuery(dbRules')) EXCEPT
                                      !.caller = c])
               /\ fresh' = FALSE
               /\ lastCall' = Call("reload")
               /\ storeCalls' = [storeCalls EXCEPT ![c].pc = "reload"]
          ELSE /\ storeCalls' = [storeCalls EXCEPT ![c].pc = "raised"]
               /\ UNCHANGED <<dbRules, storeRules, procs, fresh, lastCall>>
       /\ UNCHANGED <<engineVars, subscriptions, dispatches, notification,
                      stoppedSince, budget, evaluation>>

\* createRule / updateRule after ruleEngine.reloadRules() returned.
StoreResume(c) ==
    /\ storeCalls[c].pc = "reload"
    /\ \A p \in DOMAIN procs : procs[p].caller # c
    /\ storeCalls' = [storeCalls EXCEPT ![c].pc = "done"]
    /\ UNCHANGED <<engineVars, subscriptions, dbRules, procs, dispatches, notification,
                   stoppedSince, fresh, lastCall, budget, storeRules, evaluation>>

\* ------------------------------------------------------------------ dispatch
\* An activation of handleEvent (kind "event") or of testRule (kind "test").
\*   cacheAt        history: rulesCache when the activation started
\*   given          history: the payload the caller passed
\*   rules          matchingRules, or the one rule testRule was given
\*   pc             "context": awaiting buildContext; "rule": about to call
\*                  evaluateAndExecuteRule for rules[ri]; "action": about to call
\*                  executeAction for action ai of rules[ri]; "permission" and
\*                  "timer": that action awaits Notification.requestPermission /
\*                  the timer store; "done": returned results
\*   actionResults  executeActions' results for rules[ri] so far
\*   log            history: per finished rule, the executeActions results
\*   invoked        history: per rule, the number of actions invoked
\*   order          history: the indices of the actions of rules[ri] invoked so
\*                  far, in the order of their invocation; orders: the same per
\*                  finished rule
\*   inFlight       history: the executeAction calls of this activation that
\*                  have not settled
\*   timerCalls     history: the <<ri, ai>> whose handler went on to the timer
\*                  store
\*   observed       history: what the handlers of rules[ri] read from their
\*                  collaborators; observations: the same per finished rule
\* Mutant: the filter on the trigger is left out.
matchingRulesUnfiltered(eventType) == rulesCache

matchingRules(eventType) == SelectSeq(rulesCache, LAMBDA rule : rule.trigger = eventType)

\* Mutant: handleEvent builds the context before it looks at the number of
\* matching rules.
handleEventStartBuildsContextFirst(eventType, payload) ==
    LET matching == matchingRules(eventType)
    IN [kind |-> "event", eventType |-> eventType, payload |-> payload,
        given |-> payload, cacheAt |-> rulesCache,
        rules |-> matching,
        pc |-> IF Len(matching) = 0 THEN "done" ELSE "context",
        contextBuilt |-> TRUE, ri |-> 1, ai |-> 0,
        actionResults |-> <<>>, results |-> <<>>, log |-> <<>>, invoked |-> <<>>,
        order |-> <<>>, orders |-> <<>>, inFlight |-> 0, timerCalls |-> <<>>,
        observed |-> <<>>, observations |-> <<>>]

\* handleEvent up to its return of [] or its await of buildContext.

handleEventStart(eventType, payload) ==
    LET matching == matchingRules(eventType)
    IN [kind |-> "event", eventType |-> eventType, payload |-> payload,
        given |-> payload, cacheAt |-> rulesCache,
        rules |-> matching,
        pc |-> IF Len(matching) = 0 THEN "done" ELSE "context",
        contextBuilt |-> FALSE, ri |-> 1, ai |-> 0,
        actionResults |-> <<>>, results |-> <<>>, log |-> <<>>, invoked |-> <<>>,
        order |-> <<>>, orders |-> <<>>, inFlight |-> 0, timerCalls |-> <<>>,
        observed |-> <<>>, observations |-> <<>>]

\* eventBus.publish: every live handler of the event type is called with the
\* payload; each call runs handleEvent up to its first await or its return.
Publish(eventType, payload) ==
    LET handlers == SelectSeq(subscriptions,
                        LAMBDA sub : sub.live /\ sub.eventType = eventType)
    IN /\ budget > 0
       /\ budget' = budget - 1
       /\ dispatches' = dispatches \o
              [k \in 1..Len(handlers) |-> handleEventStart(eventType, payload)]
       /\ lastCall' = [Call("publish") EXCEPT !.eventType = eventType,
                                              !.started = Len(handlers)]
       /\ UNCHANGED <<storeVars, evaluation, engineVars, subscriptions, dbRules, procs,
                      notification, stoppedSince, fresh>>

\* Mutant: testRule builds its context from an empty payload.
testRuleStartEmptyPayload(rule, mockPayload) ==
    [kind |-> "test", eventType |-> "none", payload |-> Obj(<<>>),
     given |-> mockPayload, cacheAt |-> rulesCache,
     rules |-> <<rule>>,
     pc |-> "context",
     contextBuilt |-> FALSE, ri |-> 1, ai |-> 0,
     actionResults |-> <<>>, results |-> <<>>, log |-> <<>>, invoked |-> <<>>,
     order |-> <<>>, orders |-> <<>>, inFlight |-> 0, timerCalls |-> <<>>,
     observed |-> <<>>, observations |-> <<>>]

\* testRule(rule, mockPayload) up to its await of buildContext; what it
\* returns in the end is the one result of the activation.
testRuleStart(rule, mockPayload) ==
    [kind |-> "test", eventType |-> "none", payload |-> mockPayload,
     given |-> mockPayload, cacheAt |-> rulesCache,
     rules |-> <<rule>>,
     pc |-> "context",
     contextBuilt |-> FALSE, ri |-> 1, ai |-> 0,
     actionResults |-> <<>>, results |-> <<>>, log |-> <<>>, invoked |-> <<>>,
     order |-> <<>>, orders |-> <<>>, inFlight |-> 0, timerCalls |-> <<>>,
     observed |-> <<>>, observations |-> <<>>]

TestRule(rule, mockPayload) ==
    /\ budget > 0
    /\ budget' = budget - 1
    /\ dispatches' = Append(dispatches, testRuleStart(rule, mockPayload))
    /\ lastCall' = Call("test")
    /\ UNCHANGED <<storeVars, evaluation, engineVars, subscriptions, dbRules, procs,
                   notification, stoppedSince, fresh>>

\* Mutant: the engine handles one event at a time, an activation going on
\* only when every earlier one has returned.
ContextBuiltInTurn(d) ==
    /\ dispatches[d].pc = "context"
    /\ \A e \in 1..(d - 1) : dispatches[e].pc = "done"
    /\ dispatches' = [dispatches EXCEPT ![d].pc = "rule", ![d].contextBuilt = TRUE]
    /\ UNCHANGED <<storeVars, evaluation, engineVars, subscriptions, dbRules, procs,
                   notification, stoppedSince, fresh, lastCall, budget>>

\* handleEvent, or testRule, after buildContext returned.
ContextBuilt(d) ==
    /\ dispatches[d].pc = "context"
    /\ dispatches' = [dispatches EXCEPT ![d].pc = "rule", ![d].contextBuilt = TRUE]
    /\ UNCHANGED <<storeVars, evaluation, engineVars, subscriptions, dbRules, procs,
                   notification, stoppedSince, fresh, lastCall, budget>>

\* The EvaluatedRule evaluateAndExecuteRule starts from.
InitialResult(rule) ==
    [ruleId |-> rule.id, ruleName |-> rule.name, trigger |-> rule.trigger,
     matched |-> FALSE, actionsExecuted |-> FALSE, error |-> Undef]

\* Mutant: actionsExecuted is true only when an action ran.
ResultOfActionsNeedsOne(rule, actionResults) ==
    LET executed == /\ actionResults # <<>>
                    /\ \A k \in 1..Len(actionResults) : actionResults[k].success
        failedAt == CHOOSE k \in 1..Len(actionResults) :
                        /\ ~actionResults[k].success
                        /\ \A j \in 1..(k - 1) : actionResults[j].success
    IN [InitialResult(rule) EXCEPT
          !.matched = TRUE,
          !.actionsExecuted = executed,
          !.error = IF ~executed /\ actionResults # <<>>
                       /\ HasText(actionResults[failedAt].error)
                    THEN actionResults[failedAt].error ELSE Undef]

\* Mutant: actionsExecuted is true as soon as some action succeeded.
ResultOfActionsAnySuccess(rule, actionResults) ==
    LET executed == \E k \in 1..Len(actionResults) : actionResults[k].success
        failedAt == CHOOSE k \in 1..Len(actionResults) :
                        /\ ~actionResults[k].success
                        /\ \A j \in 1..(k - 1) : actionResults[j].success
    IN [InitialResult(rule) EXCEPT
          !.matched = TRUE,
          !.actionsExecuted = executed,
          !.error = IF ~executed /\ HasText(actionResults[failedAt].error)
                    THEN actionResults[failedAt].error ELSE Undef]

\* evaluateAndExecuteRule after executeActions returned actionResults.
ResultOfActions(rule, actionResults) ==
    LET executed == \A k \in 1..Len(actionResults) : actionResults[k].success
        failedAt == CHOOSE k \in 1..Len(actionResults) :
                        /\ ~actionResults[k].success
                        /\ \A j \in 1..(k - 1) : actionResults[j].success
    IN [InitialResult(rule) EXCEPT
          !.matched = TRUE,
          !.actionsExecuted = executed,
          !.error = IF ~executed /\ HasText(actionResults[failedAt].error)
                    THEN actionResults[failedAt].error ELSE Undef]

\* evaluateAndExecuteRule's catch block: error = String(error).
ResultOfThrow(rule, matched, error) ==
    [InitialResult(rule) EXCEPT !.matched = matched, !.error = error]

\* Mutant: the loop over the matching rules ends at the first rule whose
\* result carries an error.
PushResultStopsOnError(dis, evaluated, actionResults, invoked) ==
    [dis EXCEPT !.results = Append(@, evaluated),
                !.log = Append(@, actionResults),
                !.invoked = Append(@, invoked),
                !.orders = Append(@, dis.order),
                !.order = <<>>,
                !.observations = Append(@, dis.observed),
                !.observed = <<>>,
                !.actionResults = <<>>,
                !.ai = 0,
                !.ri = @ + 1,
                !.pc = IF dis.ri = Len(dis.rules) \/ evaluated.error # Undef
                       THEN "done" ELSE "rule"]

\* handleEvent pushes the rule's result and moves to the next matching rule.
PushResult(dis, evaluated, actionResults, invoked) ==
    [dis EXCEPT !.results = Append(@, evaluated),
                !.log = Append(@, actionResults),
                !.invoked = Append(@, invoked),
                !.orders = Append(@, dis.order),
                !.order = <<>>,
                !.observations = Append(@, dis.observed),
                !.observed = <<>>,
                !.actionResults = <<>>,
                !.ai = 0,
                !.ri = @ + 1,
                !.pc = IF dis.ri = Len(dis.rules) THEN "done" ELSE "rule"]

\* Mutant: the loop of handleEvent filters this.rulesCache anew at each rule
\* instead of walking the list it filtered when it was called.
RuleStepReadsCache(d) ==
    LET dis == [dispatches[d] EXCEPT !.rules =
                   IF @ # <<>> /\ dispatches[d].kind = "event"
                   THEN matchingRules(dispatches[d].eventType) ELSE @]
        rule == dis.rules[dis.ri]
        conditionsMatch == evaluateConditions(rule.conditions, buildContext(dis.payload))
    IN /\ dis.pc = "rule"
       /\ dispatches' =
            [dispatches EXCEPT ![d] =
               IF dis.ri > Len(dis.rules)
               THEN [dis EXCEPT !.pc = "done"]
               ELSE IF conditionsMatch.threw
               THEN PushResult(dis, ResultOfThrow(rule, FALSE,
                                   Msg("TypeError: path.split is not a function")),
                               <<>>, 0)
               ELSE IF ~conditionsMatch.value
               THEN PushResult(dis, InitialResult(rule), <<>>, 0)
               ELSE IF Len(rule.actions) = 0
               THEN PushResult(dis, ResultOfActions(rule, <<>>), <<>>, 0)
               ELSE [dis EXCEPT !.pc = "action", !.ai = 1]]
       /\ UNCHANGED <<storeVars, evaluation, engineVars, subscriptions, dbRules, procs,
                      notification, stoppedSince, fresh, lastCall, budget>>

\* Mutant: evaluateAndExecuteRule records the outcome of the conditions and
\* runs the actions whatever it is.
RuleStepIgnoresConditions(d) ==
    LET dis == dispatches[d]
        rule == dis.rules[dis.ri]
        conditionsMatch == evaluateConditions(rule.conditions, buildContext(dis.payload))
    IN /\ dis.pc = "rule"
       /\ dispatches' =
            [dispatches EXCEPT ![d] =
               IF conditionsMatch.threw
               THEN PushResult(dis, ResultOfThrow(rule, FALSE,
                                   Msg("TypeError: path.split is not a function")),
                               <<>>, 0)
               ELSE IF Len(rule.actions) = 0
               THEN PushResult(dis, ResultOfActions(rule, <<>>), <<>>, 0)
               ELSE [dis EXCEPT !.pc = "action", !.ai = 1]]
       /\ UNCHANGED <<storeVars, evaluation, engineVars, subscriptions, dbRules, procs,
                      notification, stoppedSince, fresh, lastCall, budget>>

\* evaluateAndExecuteRule up to the first executeAction call.
RuleStep(d) ==
    LET dis == dispatches[d]
        rule == dis.rules[dis.ri]
        conditionsMatch == evaluateConditions(rule.conditions, buildContext(dis.payload))
    IN /\ dis.pc = "rule"
       /\ dispatches' =
            [dispatches EXCEPT ![d] =
               IF conditionsMatch.threw
               THEN PushResult(dis, ResultOfThrow(rule, FALSE,
                                   Msg("TypeError: path.split is not a function")),
                               <<>>, 0)
               ELSE IF ~conditionsMatch.value
               THEN PushResult(dis, InitialResult(rule), <<>>, 0)
               ELSE IF Len(rule.actions) = 0
               THEN PushResult(dis, ResultOfActions(rule, <<>>), <<>>, 0)
               ELSE [dis EXCEPT !.pc = "action", !.ai = 1]]
       /\ UNCHANGED <<storeVars, evaluation, engineVars, subscriptions, dbRules, procs,
                      notification, stoppedSince, fresh, lastCall, budget>>

\* Mutant: executeActions without the break after a failed result.
AfterActionNoBreak(dis, outcome) ==
    LET rule == dis.rules[dis.ri]
        pushed == Append(dis.actionResults, outcome.result)
        settled == [dis EXCEPT !.inFlight = @ - 1]
    IN CASE outcome.kind = "throw" ->
              PushResult(settled, ResultOfThrow(rule, TRUE, outcome.error),
                         dis.actionResults, dis.ai)
         [] outcome.kind = "await" ->
              IF outcome.on = "requestPermission"
              THEN [dis EXCEPT !.pc = "permission"]
              ELSE [dis EXCEPT !.pc = "timer",
                               !.timerCalls = Append(@, <<dis.ri, dis.ai>>)]
         [] outcome.kind = "result" ->
              IF dis.ai = Len(rule.actions)
              THEN PushResult(settled, ResultOfActions(rule, pushed), pushed, dis.ai)
              ELSE [settled EXCEPT !.actionResults = pushed, !.ai = @ + 1,
                                   !.pc = "action"]

\* Mutant: executeActions does not await a handler that suspends on a
\* collaborator and goes on to the next action.
AfterActionFansOut(dis, outcome) ==
    LET rule == dis.rules[dis.ri]
        pushed == Append(dis.actionResults, outcome.result)
        settled == [dis EXCEPT !.inFlight = @ - 1]
    IN CASE outcome.kind = "throw" ->
              PushResult(settled, ResultOfThrow(rule, TRUE, outcome.error),
                         dis.actionResults, dis.ai)
         [] outcome.kind = "await" ->
              IF dis.ai = Len(rule.actions)
              THEN [dis EXCEPT !.pc = IF outcome.on = "requestPermission"
                                      THEN "permission" ELSE "timer"]
              ELSE [dis EXCEPT !.ai = @ + 1, !.pc = "action"]
         [] outcome.kind = "result" ->
              IF ~outcome.result.success \/ dis.ai = Len(rule.actions)
              THEN PushResult(settled, ResultOfActions(rule, pushed), pushed, dis.ai)
              ELSE [settled EXCEPT !.actionResults = pushed, !.ai = @ + 1,
                                   !.pc = "action"]

\* Mutant: evaluateAndExecuteRule without its catch block around the actions.
AfterActionNoCatch(dis, outcome) ==
    LET rule == dis.rules[dis.ri]
        pushed == Append(dis.actionResults, outcome.result)
        settled == [dis EXCEPT !.inFlight = @ - 1]
    IN CASE outcome.kind = "throw" -> [settled EXCEPT !.pc = "raised"]
         [] outcome.kind = "await" ->
              IF outcome.on = "requestPermission"
              THEN [dis EXCEPT !.pc = "permission"]
              ELSE [dis EXCEPT !.pc = "timer",
                               !.timerCalls = Append(@, <<dis.ri, dis.ai>>)]
         [] outcome.kind = "result" ->
              IF ~outcome.result.success \/ dis.ai = Len(rule.actions)
              THEN PushResult(settled, ResultOfActions(rule, pushed), pushed, dis.ai)
              ELSE [settled EXCEPT !.actionResults = pushed, !.ai = @ + 1,
                                   !.pc = "action"]

\* Mutant: handleEvent does not await a rule whose action suspends on a
\* collaborator and goes on to the next matching rule.
AfterActionLeavesRule(dis, outcome) ==
    LET rule == dis.rules[dis.ri]
        pushed == Append(dis.actionResults, outcome.result)
        settled == [dis EXCEPT !.inFlight = @ - 1]
    IN CASE outcome.kind = "throw" ->
              PushResult(settled, ResultOfThrow(rule, TRUE, outcome.error),
                         dis.actionResults, dis.ai)
         [] outcome.kind = "await" ->
              IF dis.ri < Len(dis.rules) /\ dis.pc = "action"
              THEN [dis EXCEPT !.ri = @ + 1, !.ai = 0, !.pc = "rule"]
              ELSE IF outcome.on = "requestPermission"
              THEN [dis EXCEPT !.pc = "permission"]
              ELSE [dis EXCEPT !.pc = "timer",
                               !.timerCalls = Append(@, <<dis.ri, dis.ai>>)]
         [] outcome.kind = "result" ->
              IF ~outcome.result.success \/ dis.ai = Len(rule.actions)
              THEN PushResult(settled, ResultOfActions(rule, pushed), pushed, dis.ai)
              ELSE [settled EXCEPT !.actionResults = pushed, !.ai = @ + 1,
                                   !.pc = "action"]

\* executeActions after executeAction for action ai settled with outcome:
\* a result is pushed and the loop goes on unless it failed or was the last; a
\* thrown error leaves through evaluateAndExecuteRule's catch block.
AfterAction(dis, outcome) ==
    LET rule == dis.rules[dis.ri]
        pushed == Append(dis.actionResults, outcome.result)
        settled == [dis EXCEPT !.inFlight = @ - 1]
    IN CASE outcome.kind = "throw" ->
              PushResult(settled, ResultOfThrow(rule, TRUE, outcome.error),
                         dis.actionResults, dis.ai)
         [] outcome.kind = "await" ->
              IF outcome.on = "requestPermission"
              THEN [dis EXCEPT !.pc = "permission"]
              ELSE [dis EXCEPT !.pc = "timer",
                               !.timerCalls = Append(@, <<dis.ri, dis.ai>>)]
         [] outcome.kind = "result" ->
              IF ~outcome.result.success \/ dis.ai = Len(rule.actions)
              THEN PushResult(settled, ResultOfActions(rule, pushed), pushed, dis.ai)
              ELSE [settled EXCEPT !.actionResults = pushed, !.ai = @ + 1,
                                   !.pc = "action"]

\* What executeAction reads from the notification capability when it is
\* invoked: nothing unless the action is a NOTIFY with params, else the
\* permission, and whether the constructor throws when it is reached.
Observed(action, permission, ctorThrows) ==
    IF action.type # "NOTIFY" \/ ParamsThrow(action.params) THEN <<>>
    ELSE <<permission, permission = "granted" /\ ctorThrows>>

\* executeActions calls executeAction for action ai.
Invoked(dis, observation) ==
    [dis EXCEPT !.order = Append(@, dis.ai), !.inFlight = @ + 1,
                !.observed = IF observation = <<>> THEN @ ELSE Append(@, observation)]

\* executeAction for action ai of the current rule, up to its return or its
\* await of a collaborator.
ActionInvoke(d, ctorThrows) ==
    LET dis == dispatches[d]
        action == dis.rules[dis.ri].actions[dis.ai]
    IN /\ dis.pc = "action"
       /\ dispatches' = [dispatches EXCEPT ![d] =
              AfterAction(Invoked(dis, Observed(action, notification, ctorThrows)),
                          executeAction(action, notification, ctorThrows))]
       /\ UNCHANGED <<storeVars, evaluation, engineVars, subscriptions, dbRules, procs,
                      notification, stoppedSince, fresh, lastCall, budget>>

\* Notification.requestPermission() settles: the user's answer becomes the
\* permission, or the request rejects.
PermissionSettle(d, answer, ctorThrows) ==
    LET dis == dispatches[d]
    IN /\ dis.pc = "permission"
       /\ notification' = IF answer = "rejected" THEN notification ELSE answer
       /\ dispatches' = [dispatches EXCEPT ![d] =
              AfterAction([dis EXCEPT !.observed =
                              Append(@, <<answer, answer = "granted" /\ ctorThrows>>)],
                          executeNotifyResume(answer, ctorThrows))]
       /\ UNCHANGED <<storeVars, evaluation, engineVars, subscriptions, dbRules, procs,
                      stoppedSince, fresh, lastCall, budget>>

\* The dynamic import and useTimerStore.getState().startTimer settle.
TimerSettle(d, outcome) ==
    LET dis == dispatches[d]
    IN /\ dis.pc = "timer"
       /\ dispatches' = [dispatches EXCEPT ![d] =
              AfterAction([dis EXCEPT !.observed = Append(@, <<outcome>>)],
                          executeStartTimerResume(outcome))]
       /\ UNCHANGED <<storeVars, evaluation, engineVars, subscriptions, dbRules, procs,
                      notification, stoppedSince, fresh, lastCall, budget>>

\* The promise a collaborator returned never settles: the await of
\* Notification.requestPermission() or of the timer store in the executor,
\* and with it the awaits of executeActions, evaluateAndExecuteRule and
\* handleEvent above it, never resume.
CollaboratorHangs(d) ==
    LET dis == dispatches[d]
    IN /\ dis.pc \in {"permission", "timer"}
       /\ dispatches' = [dispatches EXCEPT ![d] = [dis EXCEPT !.pc = "hung"]]
       /\ UNCHANGED <<storeVars, evaluation, engineVars, subscriptions, dbRules, procs,
                      notification, stoppedSince, fresh, lastCall, budget>>

\* ------------------------------------------------------------ specifications
\* Spec: the lifecycle of one engine from its construction. A dispatch reads
\* the cache when it starts and touches no engine field afterwards, so here a
\* dispatch is followed up to its first await; SpecDispatch follows it through.
InitialDb ==
    [r1 |-> Num(1), r2 |-> Num(1), r3 |-> Num(0), r4 |-> Bool(TRUE), r5 |-> Absent,
     r6 |-> Absent, r7 |-> Absent, r8 |-> Absent]

Init ==
    /\ isRunning = FALSE
    /\ unsubscribers = <<>>
    /\ rulesCache = <<>>
    /\ rolloverHour = 4
    /\ subscriptions = <<>>
    /\ dbRules = InitialDb
    /\ procs = <<>>
    /\ dispatches = <<>>
    /\ notification = "default"
    /\ stoppedSince = FALSE
    /\ fresh = FALSE
    /\ lastCall = Call("none")
    /\ budget = MaxCalls
    /\ StoreIdle
    /\ evaluation = NoEvaluation

\* The repository writes of the lifecycle: enable, disable or delete a rule.
Writes == {<<"r2", Num(0)>>, <<"r3", Num(1)>>, <<"r1", Absent>>, <<"r5", Num(1)>>}

Next ==
    \/ \E hour \in RolloverHours : StartCall(hour)
    \/ ReloadCall
    \/ \E p \in DOMAIN procs, ok \in BOOLEAN : LoadSettle(p, ok)
    \/ \E p \in DOMAIN procs : StartResume(p)
    \/ \E p \in DOMAIN procs : ReloadResume(p)
    \/ Stop
    \/ \E w \in Writes : DbWrite(w[1], w[2])
    \/ \E e \in Events : Publish(e.eventType, e.payload)

Spec == Init /\ [][Next]_vars

\* SpecStatus: getStatus() calls in the course of the lifecycle.
NextStatus ==
    \/ GetStatus
    \/ \E hour \in RolloverHours : StartCall(hour)
    \/ ReloadCall
    \/ \E p \in DOMAIN procs, ok \in BOOLEAN : LoadSettle(p, ok)
    \/ \E p \in DOMAIN procs : StartResume(p)
    \/ \E p \in DOMAIN procs : ReloadResume(p)
    \/ Stop
    \/ \E w \in Writes : DbWrite(w[1], w[2])

SpecStatus == Init /\ [][NextStatus]_vars

\* SpecDispatch: the dispatch loop of a Running engine. It starts where a
\* start() on a Stopped engine has completed: the cache holds the enabled rules
\* of the repository and the engine holds one subscription per event type.
DispatchDbs ==
    {[r1 |-> Num(1), r2 |-> Num(1), r3 |-> Num(1), r4 |-> Num(1), r5 |-> Num(1),
      r6 |-> Num(1), r7 |-> Num(1), r8 |-> Num(1)]}

InitDispatch ==
    /\ isRunning = TRUE
    /\ unsubscribers = [k \in 1..Len(EventTypes) |-> k]
    /\ dbRules \in DispatchDbs
    /\ rulesCache = EnabledQuery(dbRules)
    /\ rolloverHour = 4
    /\ subscriptions = [k \in 1..Len(EventTypes) |->
                           [eventType |-> EventTypes[k], live |-> TRUE, unsubCalls |-> 0]]
    /\ procs = <<>>
    /\ dispatches = <<>>
    /\ notification \in {"absent", "default"}
    /\ stoppedSince = FALSE
    /\ fresh = FALSE
    /\ lastCall = [Call("startDone") EXCEPT !.own = TRUE]
    /\ budget = MaxEvents
    /\ StoreIdle
    /\ evaluation = NoEvaluation

NextDispatch ==
    \/ \E e \in Events : Publish(e.eventType, e.payload)
    \/ \E d \in DOMAIN dispatches : ContextBuilt(d)
    \/ \E d \in DOMAIN dispatches : RuleStep(d)
    \/ \E d \in DOMAIN dispatches, ctorThrows \in BOOLEAN : ActionInvoke(d, ctorThrows)
    \/ \E d \in DOMAIN dispatches, ctorThrows \in BOOLEAN,
          answer \in {"granted", "denied", "default", "rejected"} :
          PermissionSettle(d, answer, ctorThrows)
    \/ \E d \in DOMAIN dispatches, outcome \in {Undef, Str(<<"t", "1">>)} :
          TimerSettle(d, outcome)
    \/ ReloadCall
    \/ \E p \in DOMAIN procs, ok \in BOOLEAN : LoadSettle(p, ok)
    \/ \E p \in DOMAIN procs : ReloadResume(p)
    \/ \E w \in Writes : DbWrite(w[1], w[2])
    \/ Stop

SpecDispatch == InitDispatch /\ [][NextDispatch]_vars

\* testRule calls made in one run of SpecTest, and stop() calls made in one
\* run of SpecStop.
MaxTests == 1

\* SpecTest: testRule calls next to live dispatches on a Running engine whose
\* cache does not change. testRule is given a cached rule and a payload an
\* event of the rule's trigger can carry: each such payload for a rule with
\* conditions, one of them for a rule without. The event published first is
\* one some cached rule is triggered by.
ShortSession ==
    Event("SESSION_CREATED", Obj([session |-> Obj([durationSec |-> Num(1000)])]))

TestInputs ==
    {<<RuleOf(RuleIds[x[1]], Num(1)), x[2].payload>> :
        x \in {y \in (DOMAIN RuleIds) \X Events :
                 /\ Catalog[RuleIds[y[1]]].trigger = y[2].eventType
                 /\ y[2] = ShortSession => Len(Catalog[RuleIds[y[1]]].conditions) > 0}}

TestEvents == {e \in Events : matchingRules(e.eventType) # <<>>}

NextTest ==
    \/ \E t \in TestInputs : TestRule(t[1], t[2])
    \/ \E d \in DOMAIN dispatches : ContextBuilt(d)
    \/ \E d \in DOMAIN dispatches : RuleStep(d)
    \/ \E d \in DOMAIN dispatches, ctorThrows \in BOOLEAN : ActionInvoke(d, ctorThrows)
    \/ \E d \in DOMAIN dispatches, ctorThrows \in BOOLEAN,
          answer \in {"granted", "denied", "default", "rejected"} :
          PermissionSettle(d, answer, ctorThrows)
    \/ \E d \in DOMAIN dispatches, outcome \in {Undef, Str(<<"t", "1">>)} :
          TimerSettle(d, outcome)

\* A Running engine whose cache holds every rule of the catalog, on which an
\* event has just been published; the notification permission was not asked
\* for yet.
InitTest ==
    /\ isRunning = TRUE
    /\ unsubscribers = [k \in 1..Len(EventTypes) |-> k]
    /\ dbRules = [id \in {RuleIds[i] : i \in DOMAIN RuleIds} |-> Num(1)]
    /\ rulesCache = EnabledQuery(dbRules)
    /\ rolloverHour = 4
    /\ subscriptions = [k \in 1..Len(EventTypes) |->
                           [eventType |-> EventTypes[k], live |-> TRUE, unsubCalls |-> 0]]
    /\ procs = <<>>
    /\ \E e \in TestEvents :
          /\ dispatches = <<handleEventStart(e.eventType, e.payload)>>
          /\ lastCall = [Call("publish") EXCEPT !.eventType = e.eventType, !.started = 1]
    /\ notification = "default"
    /\ stoppedSince = FALSE
    /\ fresh = FALSE
    /\ budget = MaxTests
    /\ StoreIdle
    /\ evaluation = NoEvaluation

SpecTest == InitTest /\ [][NextTest]_vars

\* SpecStop: stop() calls next to a dispatch in flight.
\* Every continuation of an activation is a job of the event loop and runs
\* once it is ready; the collaborators are taken to settle every call made on
\* them.
NextStop ==
    \/ Stop
    \/ \E d \in DOMAIN dispatches : ContextBuilt(d)
    \/ \E d \in DOMAIN dispatches : RuleStep(d)
    \/ \E d \in DOMAIN dispatches, ctorThrows \in BOOLEAN : ActionInvoke(d, ctorThrows)
    \/ \E d \in DOMAIN dispatches, ctorThrows \in BOOLEAN,
          answer \in {"granted", "denied", "default", "rejected"} :
          PermissionSettle(d, answer, ctorThrows)
    \/ \E d \in DOMAIN dispatches, outcome \in {Undef, Str(<<"t", "1">>)} :
          TimerSettle(d, outcome)

Fairness ==
    /\ WF_vars(\E d \in DOMAIN dispatches : ContextBuilt(d))
    /\ WF_vars(\E d \in DOMAIN dispatches : RuleStep(d))
    /\ WF_vars(\E d \in DOMAIN dispatches, ctorThrows \in BOOLEAN : ActionInvoke(d, ctorThrows))
    /\ WF_vars(\E d \in DOMAIN dispatches, ctorThrows \in BOOLEAN,
                  answer \in {"granted", "denied", "default", "rejected"} :
                  PermissionSettle(d, answer, ctorThrows))
    /\ WF_vars(\E d \in DOMAIN dispatches, outcome \in {Undef, Str(<<"t", "1">>)} :
                  TimerSettle(d, outcome))

SpecStop == InitTest /\ [][NextStop]_vars /\ Fairness

\* SpecHang: the dispatch of events to a Running engine whose collaborators
\* may leave a call unsettled for ever. The cache holds a rule that asks for
\* the notification permission and two rules triggered by a session, the
\* first of which starts a timer. A call made on a collaborator settles or is
\* one that never settles; the continuations run as in SpecStop.
HangDb ==
    [r1 |-> Num(1), r2 |-> Absent, r3 |-> Absent, r4 |-> Num(1), r5 |-> Num(1),
     r6 |-> Absent, r7 |-> Absent, r8 |-> Absent]

HangEvents ==
    {Event("SESSION_CREATED", Obj([session |-> Obj([durationSec |-> Num(2000)])])),
     Event("POMODORO_COMPLETED", Obj([count |-> Num(4)]))}

InitHang ==
    /\ isRunning = TRUE
    /\ unsubscribers = [k \in 1..Len(EventTypes) |-> k]
    /\ dbRules = HangDb
    /\ rulesCache = EnabledQuery(dbRules)
    /\ rolloverHour = 4
    /\ subscriptions = [k \in 1..Len(EventTypes) |->
                           [eventType |-> EventTypes[k], live |-> TRUE, unsubCalls |-> 0]]
    /\ procs = <<>>
    /\ dispatches = <<>>
    /\ notification = "default"
    /\ stoppedSince = FALSE
    /\ fresh = FALSE
    /\ lastCall = [Call("startDone") EXCEPT !.own = TRUE]
    /\ budget = MaxEvents
    /\ StoreIdle
    /\ evaluation = NoEvaluation

NextHang ==
    \/ \E e \in HangEvents : Publish(e.eventType, e.payload)
    \/ \E d \in DOMAIN dispatches : ContextBuilt(d)
    \/ \E d \in DOMAIN dispatches : RuleStep(d)
    \/ \E d \in DOMAIN dispatches, ctorThrows \in BOOLEAN : ActionInvoke(d, ctorThrows)
    \/ \E d \in DOMAIN dispatches, ctorThrows \in BOOLEAN,
          answer \in {"granted", "denied", "default", "rejected"} :
          PermissionSettle(d, answer, ctorThrows)
    \/ \E d \in DOMAIN dispatches, outcome \in {Undef, Str(<<"t", "1">>)} :
          TimerSettle(d, outcome)
    \/ \E d \in DOMAIN dispatches : CollaboratorHangs(d)

SpecHang == InitHang /\ [][NextHang]_vars /\ Fairness

\* SpecSnapshot: reloads next to dispatches in flight. The cache was loaded
\* when the repository held r1 and r3 enabled and r2 disabled, all triggered
\* by the completion of a pomodoro; r2 was enabled and r3 disabled since, and
\* a pomodoro event has just been published. The dispatch is suspended while
\* it awaits its context or the notification permission.
SnapshotLoaded ==
    [r1 |-> Num(1), r2 |-> Num(0), r3 |-> Num(1), r4 |-> Absent, r5 |-> Absent,
     r6 |-> Absent, r7 |-> Absent, r8 |-> Absent]

SnapshotDb == [SnapshotLoaded EXCEPT !.r2 = Num(1), !.r3 = Num(0)]

SnapshotEvents == {Event("POMODORO_COMPLETED", Obj([count |-> Num(4)]))}

InitSnapshot ==
    /\ isRunning = TRUE
    /\ unsubscribers = [k \in 1..Len(EventTypes) |-> k]
    /\ dbRules = SnapshotDb
    /\ rulesCache = EnabledQuery(SnapshotLoaded)
    /\ rolloverHour = 4
    /\ subscriptions = [k \in 1..Len(EventTypes) |->
                           [eventType |-> EventTypes[k], live |-> TRUE, unsubCalls |-> 0]]
    /\ procs = <<>>
    /\ \E e \in SnapshotEvents :
          /\ dispatches = <<handleEventStart(e.eventType, e.payload)>>
          /\ lastCall = [Call("publish") EXCEPT !.eventType = e.eventType, !.started = 1]
    /\ notification = "default"
    /\ stoppedSince = FALSE
    /\ fresh = FALSE
    /\ budget = MaxEvents
    /\ StoreIdle
    /\ evaluation = NoEvaluation

NextSnapshot ==
    \/ \E e \in SnapshotEvents : Publish(e.eventType, e.payload)
    \/ \E d \in DOMAIN dispatches : ContextBuilt(d)
    \/ \E d \in DOMAIN dispatches : RuleStep(d)
    \/ \E d \in DOMAIN dispatches : ActionInvoke(d, FALSE)
    \/ \E d \in DOMAIN dispatches, answer \in {"granted", "denied"} :
          PermissionSettle(d, answer, FALSE)
    \/ ReloadCall
    \/ \E p \in DOMAIN procs, ok \in BOOLEAN : LoadSettle(p, ok)
    \/ \E p \in DOMAIN procs : ReloadResume(p)

SpecSnapshot == InitSnapshot /\ [][NextSnapshot]_vars

\* SpecStopped: an engine that is stopped and then used. It starts Running,
\* with a cache loaded before the repository was last written and with either
\* rollover hour; testRule and reloadRules are called once it is Stopped, and
\* getStatus at any time. testRule is given rules without a NOTIFY or
\* START_TIMER action.
StoppedTests ==
    {<<RuleOf("r3", Num(0)), Obj([count |-> Num(4)])>>}
    \cup {<<RuleOf("r5", Num(1)), e.payload>> :
             e \in {x \in Events : x.eventType = "SESSION_CREATED"}}

InitStopped ==
    /\ isRunning = TRUE
    /\ unsubscribers = [k \in 1..Len(EventTypes) |-> k]
    /\ dbRules = SnapshotDb
    /\ rulesCache = EnabledQuery(SnapshotLoaded)
    /\ rolloverHour \in RolloverHours
    /\ subscriptions = [k \in 1..Len(EventTypes) |->
                           [eventType |-> EventTypes[k], live |-> TRUE, unsubCalls |-> 0]]
    /\ procs = <<>>
    /\ dispatches = <<>>
    /\ notification = "default"
    /\ stoppedSince = FALSE
    /\ fresh = FALSE
    /\ lastCall = [Call("startDone") EXCEPT !.own = TRUE]
    /\ budget = MaxCalls
    /\ StoreIdle
    /\ evaluation = NoEvaluation

NextStopped ==
    \/ Stop
    \/ GetStatus
    \/ ~isRunning /\ ReloadCall
    \/ \E p \in DOMAIN procs, ok \in BOOLEAN : LoadSettle(p, ok)
    \/ \E p \in DOMAIN procs : ReloadResume(p)
    \/ ~isRunning /\ \E t \in StoppedTests : TestRule(t[1], t[2])
    \/ \E d \in DOMAIN dispatches : ContextBuilt(d)
    \/ \E d \in DOMAIN dispatches : RuleStep(d)
    \/ \E d \in DOMAIN dispatches : ActionInvoke(d, FALSE)

SpecStopped == InitStopped /\ [][NextStopped]_vars

\* SpecActions: the dispatch of events to a Running engine whose cache holds
\* the two templates and the rule with the unregistered action type, under
\* each state of the notification capability. The sessions published have
\* durations around the threshold of session-to-habit.
ActionsDb ==
    [r1 |-> Num(1), r2 |-> Absent, r3 |-> Absent, r4 |-> Absent, r5 |-> Num(1),
     r6 |-> Absent, r7 |-> Num(1), r8 |-> Num(1)]

SessionDurations == {1799, 1800, 2000}

ActionEvents ==
    {Event("SESSION_CREATED", Obj([session |-> Obj([durationSec |-> Num(d)])])) :
        d \in SessionDurations}
    \cup {Event("POMODORO_COMPLETED", Obj([count |-> Num(4)])),
          Event("GOAL_REACHED", Obj([goal |-> Str(<<"g", "1">>)])),
          Event("HABIT_CHECKED", Obj([done |-> Bool(TRUE)])),
          Event("HABIT_CHECKED", Obj([done |-> Bool(FALSE)]))}

InitActions ==
    /\ isRunning = TRUE
    /\ unsubscribers = [k \in 1..Len(EventTypes) |-> k]
    /\ dbRules = ActionsDb
    /\ rulesCache = EnabledQuery(dbRules)
    /\ rolloverHour = 4
    /\ subscriptions = [k \in 1..Len(EventTypes) |->
                           [eventType |-> EventTypes[k], live |-> TRUE, unsubCalls |-> 0]]
    /\ procs = <<>>
    /\ dispatches = <<>>
    /\ notification \in {"absent", "default", "granted", "denied"}
    /\ stoppedSince = FALSE
    /\ fresh = FALSE
    /\ lastCall = [Call("startDone") EXCEPT !.own = TRUE]
    /\ budget = MaxEvents
    /\ StoreIdle
    /\ evaluation = NoEvaluation

NextActions ==
    \/ \E e \in ActionEvents : Publish(e.eventType, e.payload)
    \/ \E d \in DOMAIN dispatches : ContextBuilt(d)
    \/ \E d \in DOMAIN dispatches : RuleStep(d)
    \/ \E d \in DOMAIN dispatches, ctorThrows \in BOOLEAN : ActionInvoke(d, ctorThrows)
    \/ \E d \in DOMAIN dispatches, ctorThrows \in BOOLEAN,
          answer \in {"granted", "denied", "default", "rejected"} :
          PermissionSettle(d, answer, ctorThrows)

SpecActions == InitActions /\ [][NextActions]_vars

\* SpecEval: calls of the evaluator's functions on the paths, conditions and
\* payloads below. The payloads hold a nested object, an array, strings, a
\* number and null; the paths reach each of them, pass through each of them,
\* and pass through a key that is missing.
MaxConditions == 2

EvalPayloads ==
    {Obj([session |-> Obj([durationSec |-> Num(1800)]),
          tags |-> Arr(<<Str(<<"a">>), Num(4)>>),
          name |-> Str(<<"w", "o", "r", "k">>),
          note |-> Null,
          count |-> Num(4)]),
     Obj([session |-> Obj([durationSec |-> Str(<<"1", "8", "0", "0">>)]),
          tags |-> Str(<<"a", "b">>),
          count |-> Num(5)]),
     Obj(<<>>)}

EvalPaths ==
    {<<"payload", ".", "session", ".", "durationSec">>,
     <<"payload", ".", "count">>,
     <<"payload", ".", "tags">>,
     <<"payload", ".", "tags", ".", "0">>,
     <<"payload", ".", "name">>,
     <<"payload", ".", "note">>,
     <<"payload", ".", "note", ".", "text">>,
     <<"payload", ".", "user", ".", "name">>,
     <<"payload", ".", "count", ".", "value">>,
     <<"payload", ".", "name", ".", "length">>,
     <<"context", ".", "payload", ".", "count">>}

EvalOperators == {"eq", "neq", "gt", "gte", "lt", "lte", "contains", "matches"}

EvalValues ==
    {Num(1800), Num(4), Str(<<"a">>), Str(<<"o", "r">>), Str(<<>>), Null, Undef,
     Bool(TRUE)}

EvalConditions ==
    {[field |-> Str(path), operator |-> operator, value |-> value] :
        path \in EvalPaths, operator \in EvalOperators, value \in EvalValues}
    \cup {[field |-> Undef, operator |-> "gt", value |-> Num(4)]}

\* The conditions the lists given to evaluateConditions are made of: their
\* outcome differs from payload to payload, and the last one throws.
ListConditions ==
    {[field |-> Str(<<"payload", ".", "count">>), operator |-> "gte", value |-> Num(4)],
     [field |-> Str(<<"payload", ".", "name">>), operator |-> "contains",
      value |-> Str(<<"o", "r">>)],
     [field |-> Str(<<"payload", ".", "user", ".", "name">>), operator |-> "neq",
      value |-> Str(<<"a">>)],
     [field |-> Str(<<"payload", ".", "count">>), operator |-> "lt", value |-> Num(4)],
     [field |-> Undef, operator |-> "eq", value |-> Num(1)]}

EvaluatorCalls ==
    {EvaluatorCall("getNestedValue", path, <<>>, payload) :
        path \in EvalPaths, payload \in EvalPayloads}
    \cup {EvaluatorCall("evaluateCondition", <<>>, <<condition>>, payload) :
        condition \in EvalConditions, payload \in EvalPayloads}
    \cup {EvaluatorCall("evaluateConditions", <<>>, conditions, payload) :
        conditions \in UNION {[1..n -> ListConditions] : n \in 0..MaxConditions},
        payload \in EvalPayloads}

InitEval ==
    /\ isRunning = FALSE
    /\ unsubscribers = <<>>
    /\ rulesCache = <<>>
    /\ rolloverHour = 4
    /\ subscriptions = <<>>
    /\ dbRules = InitialDb
    /\ procs = <<>>
    /\ dispatches = <<>>
    /\ notification = "default"
    /\ stoppedSince = FALSE
    /\ fresh = FALSE
    /\ lastCall = Call("none")
    /\ budget = 0
    /\ StoreIdle
    /\ evaluation \in EvaluatorCalls

NextEval ==
    \/ GetNestedValue
    \/ EvaluateCondition
    \/ EvaluateConditions

SpecEval == InitEval /\ [][NextEval]_vars

\* SpecStore: createRule and toggleRule calls on the rules store of a Running
\* engine. The store was initialized from the repository, which holds a rule
\* stored with enabled 1 and rules the store wrote.
MaxStoreCalls == 2

StoreDb ==
    [r1 |-> Num(1), r2 |-> Absent, r3 |-> Bool(FALSE), r4 |-> Bool(TRUE),
     r5 |-> Absent, r6 |-> Absent, r7 |-> Absent, r8 |-> Absent]

InitStore ==
    /\ isRunning = TRUE
    /\ unsubscribers = [k \in 1..Len(EventTypes) |-> k]
    /\ dbRules = StoreDb
    /\ rulesCache = EnabledQuery(dbRules)
    /\ rolloverHour = 4
    /\ subscriptions = [k \in 1..Len(EventTypes) |->
                           [eventType |-> EventTypes[k], live |-> TRUE, unsubCalls |-> 0]]
    /\ procs = <<>>
    /\ dispatches = <<>>
    /\ notification = "default"
    /\ stoppedSince = FALSE
    /\ fresh = FALSE
    /\ lastCall = [Call("startDone") EXCEPT !.own = TRUE]
    /\ budget = MaxStoreCalls
    /\ storeRules = dbRules
    /\ storeCalls = <<>>
    /\ evaluation = NoEvaluation

NextStore ==
    \/ \E id \in {"r2", "r5"}, enabled \in {Undef, Bool(TRUE), Bool(FALSE)} :
          CreateRule(id, enabled)
    \/ \E id \in {"r1", "r4", "r5"} : ToggleRule(id)
    \/ \E c \in DOMAIN storeCalls, ok \in BOOLEAN : StoreWriteSettle(c, ok)
    \/ \E p \in DOMAIN procs, ok \in BOOLEAN : LoadSettle(p, ok)
    \/ \E p \in DOMAIN procs : ReloadResume(p)
    \/ \E c \in DOMAIN storeCalls : StoreResume(c)

SpecStore == InitStore /\ [][NextStore]_vars

\* SpecInitialize: the rules store from its creation, next to a Running
\* engine: initialize and the createRule, updateRule and deleteRule calls made
\* before it has returned or after.
InitInitialize ==
    /\ isRunning = TRUE
    /\ unsubscribers = [k \in 1..Len(EventTypes) |-> k]
    /\ dbRules = StoreDb
    /\ rulesCache = EnabledQuery(dbRules)
    /\ rolloverHour = 4
    /\ subscriptions = [k \in 1..Len(EventTypes) |->
                           [eventType |-> EventTypes[k], live |-> TRUE, unsubCalls |-> 0]]
    /\ procs = <<>>
    /\ dispatches = <<>>
    /\ notification = "default"
    /\ stoppedSince = FALSE
    /\ fresh = FALSE
    /\ lastCall = [Call("startDone") EXCEPT !.own = TRUE]
    /\ budget = MaxStoreCalls
    /\ StoreIdle
    /\ evaluation = NoEvaluation

NextInitialize ==
    \/ Initialize
    \/ \E c \in DOMAIN storeCalls, ok \in BOOLEAN : InitializeSettle(c, ok)
    \/ \E id \in {"r2"}, enabled \in {Undef, Bool(FALSE)} : CreateRule(id, enabled)
    \/ \E id \in {"r1", "r2"}, enabled \in {Bool(FALSE)} : UpdateRule(id, enabled)
    \/ \E id \in {"r1", "r4"} : DeleteRule(id)
    \/ \E c \in DOMAIN storeCalls, ok \in BOOLEAN : StoreWriteSettle(c, ok)
    \/ \E p \in DOMAIN procs, ok \in BOOLEAN : LoadSettle(p, ok)
    \/ \E p \in DOMAIN procs : ReloadResume(p)
    \/ \E c \in DOMAIN storeCalls : StoreResume(c)

SpecInitialize == InitInitialize /\ [][NextInitialize]_vars

\* -------------------------------------------------------------------- claims
\* The live subscriptions the bus holds for an event type.
LiveSubscriptions(eventType) ==
    {i \in DOMAIN subscriptions :
        subscriptions[i].live /\ subscriptions[i].eventType = eventType}

\* The engine holds a live subscription of every event type.
SubscribedToAll ==
    \A k \in DOMAIN EventTypes :
        \E j \in DOMAIN unsubscribers :
            unsubscribers[j] \in LiveSubscriptions(EventTypes[k])

\* C1: in every reachable state there is at most one live subscription per
\* event type, and a publication starts at most one dispatch.
C1_OneSubscriptionPerEventType ==
    /\ \A k \in DOMAIN EventTypes : Cardinality(LiveSubscriptions(EventTypes[k])) <= 1
    /\ lastCall.op = "publish" => lastCall.started <= 1

\* C2: once stop() has returned and until start() is called again, isRunning
\* is false, the engine holds no subscription and the bus holds no live
\* handler of the engine, so that no publication starts a dispatch.
C2_StoppedAfterStop ==
    stoppedSince =>
        /\ ~isRunning
        /\ unsubscribers = <<>>
        /\ \A k \in DOMAIN EventTypes : LiveSubscriptions(EventTypes[k]) = {}
        /\ lastCall.op = "publish" => lastCall.started = 0

\* The activation p returns in this step, after loadRules() had returned.
Completes(p) ==
    /\ p \in DOMAIN procs
    /\ procs[p].pc = "loaded"
    /\ procs' = Remove(procs, p)

\* C3: in the step in which a start() that passed its isRunning guard
\* completes, isRunning becomes true, the engine becomes subscribed to each
\* of the seven event types, and the cache holds the rules the repository
\* reported to the loadRules that assigned it last: the call's own, unless
\* another loadRules settled in between; they are the enabled rules of the
\* repository when it was not written since the query. Subscriptions are
\* registered only in such a step, that is after the rule load has finished.
C3_StartCompletes ==
    /\ [][\A p \in DOMAIN procs :
            (Completes(p) /\ procs[p].kind = "start") =>
                /\ isRunning'
                /\ SubscribedToAll'
                /\ Len(unsubscribers') = Len(unsubscribers) + Len(EventTypes)
                /\ (procs[p].latest /\ ~procs[p].failed) =>
                        /\ rulesCache' = procs[p].snap
                        /\ ~procs[p].stale => rulesCache' = EnabledQuery(dbRules')]_vars
    /\ [][Len(subscriptions') > Len(subscriptions) =>
            \E p \in DOMAIN procs : Completes(p) /\ procs[p].kind = "start"]_vars

\* C3 witness: a start() on a Stopped engine has just completed with its own
\* successful load, leaving a non-empty cache.
C3_Witness ==
    /\ lastCall.op = "startDone" /\ lastCall.own /\ ~lastCall.failed
    /\ isRunning /\ SubscribedToAll /\ Len(rulesCache) >= 2
    /\ Len(subscriptions) = Len(EventTypes)

\* A call of the named operation is made in this step.
Calls(op) == budget' = budget - 1 /\ lastCall'.op = op

\* C4: a start() call made while the engine is Running returns at once and
\* changes neither the rule cache, the subscription list, the bus'
\* subscriptions, the rollover hour nor isRunning.
C4_StartWhileRunning ==
    [][(Calls("start") /\ isRunning) =>
          /\ UNCHANGED <<rulesCache, unsubscribers, subscriptions, rolloverHour, isRunning>>
          /\ UNCHANGED procs]_vars

\* C4 witness: start() has just been called on a Running engine whose rollover
\* hour differs from the default the call would have recorded.
C4_Witness ==
    /\ lastCall.op = "start" /\ lastCall.noop
    /\ isRunning /\ procs = <<>> /\ rolloverHour = 0

\* C5: unsubscribe is called at most once on every subscription, whatever the
\* sequence of stop() calls, and a stop() call on a Stopped engine leaves
\* isRunning false, the subscription list empty and the cache, the rollover
\* hour and the bus' subscriptions unchanged.
C5_StopIdempotent ==
    /\ [](\A i \in DOMAIN subscriptions : subscriptions[i].unsubCalls <= 1)
    /\ [][(Calls("stop") /\ ~isRunning) =>
            /\ ~isRunning' /\ unsubscribers' = <<>>
            /\ UNCHANGED <<isRunning, unsubscribers, rulesCache, rolloverHour,
                           subscriptions>>]_vars

\* C5 witness: stop() has just been called on an engine an earlier stop() had
\* stopped and unsubscribed.
C5_Witness ==
    /\ lastCall.op = "stop" /\ lastCall.noop
    /\ \E i \in DOMAIN subscriptions : subscriptions[i].unsubCalls = 1

\* A reloadRules() activation takes a step: it is called, its query settles,
\* or it returns.
ReloadStep ==
    \/ Calls("reload")
    \/ \E p \in DOMAIN procs :
          /\ procs[p].kind = "reload"
          /\ \/ Completes(p)
             \/ /\ procs[p].pc = "query" /\ Len(procs') = Len(procs)
                /\ procs'[p].pc = "loaded"

\* C7: no step of reloadRules() changes isRunning, the subscription list, the
\* bus' subscriptions or the rollover hour, in the Running and in the Stopped state.
C7_ReloadFrame ==
    [][ReloadStep => UNCHANGED <<isRunning, unsubscribers, subscriptions, rolloverHour>>]_vars

\* C7 witness: a reloadRules() has completed on a Running engine and replaced
\* the cache.
C7_Witness ==
    /\ lastCall.op = "reloadDone" /\ lastCall.own /\ isRunning
    /\ rulesCache # EnabledQuery(InitialDb)

\* C8: when the repository query of a loadRules rejects, the cache becomes
\* empty and the activation goes on as after a successful load; no activation
\* ends otherwise than by returning after loadRules; and a start() whose query
\* rejected completes Running and subscribed, with ruleCount 0 when no other
\* loadRules settled in between.
C8_LoadFailureContained ==
    /\ [][\A p \in DOMAIN procs :
            (procs[p].pc = "query" /\ Len(procs') = Len(procs) /\ procs'[p].failed) =>
                rulesCache' = <<>> /\ procs'[p].pc = "loaded"]_vars
    /\ [][Len(procs') < Len(procs) => \E p \in DOMAIN procs : Completes(p)]_vars
    /\ [][\A p \in DOMAIN procs :
            (Completes(p) /\ procs[p].kind = "start" /\ procs[p].failed) =>
                /\ isRunning' /\ SubscribedToAll'
                /\ procs[p].latest => getStatus' = [isRunning |-> TRUE, ruleCount |-> 0]]_vars

\* C8 witness: a start() whose query rejected has completed: the engine is
\* Running and subscribed with an empty cache.
C8_Witness ==
    /\ lastCall.op = "startDone" /\ lastCall.failed /\ lastCall.own
    /\ isRunning /\ SubscribedToAll /\ getStatus.ruleCount = 0

\* The rules of a cache that an event type triggers, in cache order.
Triggered(cache, eventType) == SelectSeq(cache, LAMBDA rule : rule.trigger = eventType)

RuleIdsOf(rules) == [k \in DOMAIN rules |-> rules[k].id]
ResultIdsOf(results) == [k \in DOMAIN results |-> results[k].ruleId]

\* C9: a handleEvent that has returned holds exactly one EvaluatedRule for each
\* rule of the cache (as it was when the call was made) whose trigger is the
\* event type, in cache order, and none for any other rule.
C9_OneResultPerMatchingRule ==
    \A d \in DOMAIN dispatches :
        dispatches[d].pc = "done" =>
            /\ ResultIdsOf(dispatches[d].results) =
                  RuleIdsOf(Triggered(dispatches[d].cacheAt, dispatches[d].eventType))
            /\ \A k \in DOMAIN dispatches[d].results :
                  dispatches[d].results[k].trigger = dispatches[d].eventType

\* C9 witness: a returned handleEvent with three results, from a cache that
\* also held rules of another trigger.
C9_Witness ==
    \E d \in DOMAIN dispatches :
        /\ dispatches[d].pc = "done"
        /\ Len(dispatches[d].results) = 3
        /\ Len(dispatches[d].cacheAt) > 3

\* What evaluateAndExecuteRule owes for a rule, from that rule's conditions,
\* the payload, the results its own actions gave (own) and the number of its
\* actions that were invoked.
OwnResult(rule, payload, own, invoked, result) ==
    LET match == evaluateConditions(rule.conditions, buildContext(payload))
        executed == \A k \in DOMAIN own : own[k].success
    IN /\ result.ruleId = rule.id
       /\ result.matched = (~match.threw /\ match.value)
       /\ ~result.matched => invoked = 0 /\ own = <<>>
       /\ Len(own) <= invoked /\ invoked <= Len(rule.actions)
       /\ \A k \in DOMAIN own : own[k].actionType = rule.actions[k].type
       /\ result.actionsExecuted = (result.matched /\ invoked = Len(own) /\ executed)
       /\ CASE match.threw -> HasText(result.error)
            [] ~match.value -> result.error = Undef
            [] invoked > Len(own) -> HasText(result.error)
            [] executed -> result.error = Undef
            [] OTHER -> \E k \in DOMAIN own :
                          /\ ~own[k].success
                          /\ \A j \in 1..(k - 1) : own[j].success
                          /\ result.error = own[k].error

\* C10: every rule that matches an event is evaluated and has its result in
\* the returned list, also after a rule whose action failed or whose evaluation
\* threw; and each result is the one its own rule's conditions and actions give.
C10_PerRuleIsolation ==
    \A d \in DOMAIN dispatches :
        LET dis == dispatches[d]
        IN /\ dis.pc = "done" => Len(dis.results) = Len(dis.rules)
           /\ \A k \in DOMAIN dis.results :
                 OwnResult(dis.rules[k], dis.payload, dis.log[k], dis.invoked[k],
                           dis.results[k])

\* C10 witness: a returned handleEvent whose first rule's action failed, whose
\* second rule's evaluation threw and whose third rule executed its actions.
C10_Witness ==
    \E d \in DOMAIN dispatches :
        LET dis == dispatches[d]
        IN /\ dis.pc = "done" /\ Len(dis.results) = 3
           /\ dis.results[1].matched /\ ~dis.results[1].actionsExecuted
           /\ HasText(dis.results[1].error)
           /\ ~dis.results[2].matched /\ HasText(dis.results[2].error)
           /\ dis.results[3].matched /\ dis.results[3].actionsExecuted

\* The executeActions call made for rule k of an activation has returned (it
\* is not made when the conditions do not hold, and it does not return when an
\* action handler throws).
ActionsReturned(dis, k) ==
    dis.results[k].matched /\ dis.invoked[k] = Len(dis.log[k])

\* C11: the list executeActions returns holds, in order, the result of each
\* action up to and including the first that failed, or of all actions when
\* none failed; every result before the last is a success; and no action after
\* a failed one is ever invoked, also while the call is still running.
C11_FailFast ==
    \A d \in DOMAIN dispatches :
        LET dis == dispatches[d]
        IN /\ \A j \in DOMAIN dis.actionResults : dis.actionResults[j].success
           /\ \A k \in DOMAIN dis.log :
                 LET own == dis.log[k]
                     actions == dis.rules[k].actions
                 IN /\ Len(own) <= Len(actions)
                    /\ \A j \in DOMAIN own : own[j].actionType = actions[j].type
                    /\ \A j \in 1..(Len(own) - 1) : own[j].success
                    /\ \A j \in DOMAIN own : ~own[j].success => dis.invoked[k] = j
                    /\ ActionsReturned(dis, k) =>
                          \/ Len(own) = Len(actions) /\ \A j \in DOMAIN own : own[j].success
                          \/ Len(own) >= 1 /\ ~own[Len(own)].success

\* C11 witness: executeActions has returned two results, a success and a
\* failure, for a rule of three actions whose third was not invoked.
C11_Witness ==
    \E d \in DOMAIN dispatches :
        \E k \in DOMAIN dispatches[d].log :
            /\ ActionsReturned(dispatches[d], k)
            /\ Len(dispatches[d].rules[k].actions) = 3
            /\ Len(dispatches[d].log[k]) = 2
            /\ dispatches[d].log[k][1].success /\ ~dispatches[d].log[k][2].success
            /\ dispatches[d].invoked[k] = 2

\* The indices 1, 2, ... n in this order.
FirstIndices(order) == order = [j \in 1..Len(order) |-> j]

\* C12: within one executeActions call the actions are invoked in list order,
\* each at most once, and an action is invoked only when every action invoked
\* before it has settled: at most one executeAction call is in flight, and
\* none is when the next one is about to be made or the call is over.
C12_SequentialActions ==
    \A d \in DOMAIN dispatches :
        LET dis == dispatches[d]
        IN /\ FirstIndices(dis.order)
           /\ dis.pc \in {"permission", "timer"} =>
                 dis.inFlight = 1 /\ Len(dis.order) = Len(dis.actionResults) + 1
           /\ dis.pc \notin {"permission", "timer"} => dis.inFlight = 0
           /\ dis.pc = "action" =>
                 dis.ai = Len(dis.order) + 1 /\ Len(dis.order) = Len(dis.actionResults)
           /\ \A k \in DOMAIN dis.orders :
                 /\ FirstIndices(dis.orders[k])
                 /\ Len(dis.orders[k]) <= Len(dis.rules[k].actions)
                 /\ Len(dis.orders[k]) = dis.invoked[k]

\* C12 witness: the second action of a rule is about to be invoked after the
\* first one, which had suspended on the timer store, has settled.
C12_Witness ==
    \E d \in DOMAIN dispatches :
        LET dis == dispatches[d]
        IN /\ dis.pc = "action" /\ dis.ai = 2 /\ dis.order = <<1>>
           /\ dis.timerCalls # <<>>
           /\ dis.timerCalls[Len(dis.timerCalls)] = <<dis.ri, 1>>

\* The outcome of a rule's conditions on the payload of an activation.
ConditionsOf(dis, k) == evaluateConditions(dis.rules[k].conditions, buildContext(dis.payload))

\* C13: when the conditions of a rule do not hold, its result has matched
\* false and actionsExecuted false, carries no error, and none of the rule's
\* actions is invoked, neither before nor after the result is recorded.
C13_NoMatchNoActions ==
    \A d \in DOMAIN dispatches :
        LET dis == dispatches[d]
        IN /\ \A k \in DOMAIN dis.results :
                 (~ConditionsOf(dis, k).threw /\ ~ConditionsOf(dis, k).value) =>
                     /\ dis.results[k] = InitialResult(dis.rules[k])
                     /\ ~dis.results[k].matched /\ ~dis.results[k].actionsExecuted
                     /\ dis.invoked[k] = 0 /\ dis.orders[k] = <<>> /\ dis.log[k] = <<>>
                     /\ \A c \in DOMAIN dis.timerCalls : dis.timerCalls[c][1] # k
           /\ (dis.pc \in {"action", "permission", "timer"}) =>
                 (~ConditionsOf(dis, dis.ri).threw /\ ConditionsOf(dis, dis.ri).value)

\* C13 witness: a returned handleEvent holds the result of a rule that has
\* actions and whose condition was false on the payload.
C13_Witness ==
    \E d \in DOMAIN dispatches :
        \E k \in DOMAIN dispatches[d].results :
            /\ dispatches[d].pc = "done"
            /\ Len(dispatches[d].rules[k].conditions) > 0
            /\ Len(dispatches[d].rules[k].actions) > 0
            /\ ~ConditionsOf(dispatches[d], k).threw
            /\ ~ConditionsOf(dispatches[d], k).value
            /\ ~dispatches[d].results[k].matched

\* The results of the failed actions among the results of one rule.
FailedIn(own) == {j \in DOMAIN own : ~own[j].success}

\* C14: when the conditions of a rule hold, its result has matched true;
\* actionsExecuted is true exactly when every action that was invoked returned
\* a success; when an action returned a failure, the result's error is the
\* error of the first such action; when all succeeded there is no error; and
\* when a handler threw, the error is the text of what it threw.
C14_MatchedResult ==
    \A d \in DOMAIN dispatches :
        LET dis == dispatches[d]
        IN \A k \in DOMAIN dis.results :
              (~ConditionsOf(dis, k).threw /\ ConditionsOf(dis, k).value) =>
                  LET own == dis.log[k]
                      allSucceeded == dis.invoked[k] = Len(own) /\ FailedIn(own) = {}
                  IN /\ dis.results[k].matched
                     /\ dis.results[k].actionsExecuted = allSucceeded
                     /\ FailedIn(own) # {} =>
                           /\ \A j \in FailedIn(own) :
                                 (\A h \in FailedIn(own) : h >= j) =>
                                     dis.results[k].error = own[j].error
                           /\ HasText(dis.results[k].error)
                     /\ allSucceeded => dis.results[k].error = Undef
                     /\ dis.invoked[k] > Len(own) => HasText(dis.results[k].error)

\* C14 witness: a returned handleEvent holds, for rules whose conditions held,
\* a result with actionsExecuted true and a result with actionsExecuted false
\* that carries the error of the rule's second action.
C14_Witness ==
    \E d \in DOMAIN dispatches :
        LET dis == dispatches[d]
        IN /\ dis.pc = "done"
           /\ \E k \in DOMAIN dis.results :
                 /\ Len(dis.rules[k].conditions) > 0
                 /\ dis.results[k].matched /\ dis.results[k].actionsExecuted
           /\ \E k \in DOMAIN dis.results :
                 /\ dis.results[k].matched /\ ~dis.results[k].actionsExecuted
                 /\ Len(dis.log[k]) = 2
                 /\ dis.results[k].error = dis.log[k][2].error
                 /\ dis.results[k].error = Msg("activityId gerekli")

\* The evaluation of rule k of an activation threw: in its conditions, or in
\* the handler of an action.
EvaluationThrew(dis, k) ==
    ConditionsOf(dis, k).threw \/ dis.invoked[k] > Len(dis.log[k])

\* C15: no handleEvent and no testRule activation ends by raising: an error
\* thrown by a rule's conditions or by an action handler becomes the error
\* string of that rule's result, the activation goes on, and when it has
\* returned it holds a result for each of its rules (one for testRule).
C15_NeverRaises ==
    \A d \in DOMAIN dispatches :
        LET dis == dispatches[d]
        IN /\ dis.pc \in {"context", "rule", "action", "permission", "timer", "done"}
           /\ \A k \in DOMAIN dis.results :
                 EvaluationThrew(dis, k) =>
                     /\ HasText(dis.results[k].error)
                     /\ ~dis.results[k].actionsExecuted
                     /\ dis.results[k].matched = ~ConditionsOf(dis, k).threw
           /\ dis.pc = "done" => Len(dis.results) = Len(dis.rules)
           /\ (dis.pc = "done" /\ dis.kind = "test") => Len(dis.results) = 1

\* C15 witness: a testRule whose rule's second action threw has returned its
\* result, and a handleEvent has returned after the conditions of one of its
\* rules threw.
C15_Witness ==
    /\ \E d \in DOMAIN dispatches :
          /\ dispatches[d].kind = "test" /\ dispatches[d].pc = "done"
          /\ dispatches[d].invoked[1] = 2 /\ Len(dispatches[d].log[1]) = 1
          /\ HasText(dispatches[d].results[1].error)
    /\ \E d \in DOMAIN dispatches :
          /\ dispatches[d].kind = "event" /\ dispatches[d].pc = "done"
          /\ \E k \in DOMAIN dispatches[d].results : ConditionsOf(dispatches[d], k).threw

\* C16: a testRule(rule, payload) that has returned and the evaluation of the
\* same rule by a handleEvent whose event carried the same payload agree,
\* whenever their action handlers read the same from the collaborators: the
\* same EvaluatedRule, the same actions invoked in the same order and the
\* same action results.
C16_TestRuleAsLive ==
    \A t \in DOMAIN dispatches : \A d \in DOMAIN dispatches :
        (dispatches[t].kind = "test" /\ dispatches[d].kind = "event") =>
            \A k \in DOMAIN dispatches[d].results :
                (/\ dispatches[t].results # <<>>
                 /\ dispatches[d].rules[k].id = dispatches[t].rules[1].id
                 /\ dispatches[d].given = dispatches[t].given
                 /\ dispatches[d].observations[k] = dispatches[t].observations[1]) =>
                    /\ dispatches[t].results[1] = dispatches[d].results[k]
                    /\ dispatches[t].orders[1] = dispatches[d].orders[k]
                    /\ dispatches[t].log[1] = dispatches[d].log[k]

\* C16 witness: a testRule and a handleEvent have both evaluated the rule with
\* a condition on the payload they were given, and the condition held.
C16_Witness ==
    \E t \in DOMAIN dispatches : \E d \in DOMAIN dispatches :
        \E k \in DOMAIN dispatches[d].results :
            /\ dispatches[t].kind = "test" /\ dispatches[d].kind = "event"
            /\ dispatches[t].pc = "done"
            /\ dispatches[d].rules[k].id = dispatches[t].rules[1].id
            /\ dispatches[d].given = dispatches[t].given
            /\ Len(dispatches[t].rules[1].conditions) > 0
            /\ dispatches[t].results[1].matched /\ dispatches[t].results[1].actionsExecuted
            /\ dispatches[t].results[1] = dispatches[d].results[k]

\* Activation d has returned with a result for every rule that matched its
\* event, each rule's actions having run up to the first failure.
RanToCompletion(d) ==
    /\ d \in DOMAIN dispatches
    /\ dispatches[d].pc = "done"
    /\ ResultIdsOf(dispatches[d].results) =
          RuleIdsOf(Triggered(dispatches[d].cacheAt, dispatches[d].eventType))
    /\ \A k \in DOMAIN dispatches[d].results :
          ActionsReturned(dispatches[d], k) =>
              \/ Len(dispatches[d].log[k]) = Len(dispatches[d].rules[k].actions)
              \/ ~dispatches[d].log[k][Len(dispatches[d].log[k])].success

\* C17: stop() leaves every activation of handleEvent as it is, and an
\* activation that exists once stop() was called goes on to return, with every
\* matching rule evaluated and its actions executed fail-fast, provided the
\* collaborators settle the calls made on them.
C17_InFlightDispatchCompletes ==
    /\ [][Calls("stop") => UNCHANGED dispatches]_vars
    /\ (dispatches # <<>> /\ stoppedSince) ~>
          \A d \in DOMAIN dispatches : RanToCompletion(d)

\* C17 witness: stop() was called while a dispatch was awaiting the timer
\* store, and that dispatch has returned since, its rules evaluated.
C17_Witness ==
    /\ lastCall.op = "stop" /\ ~lastCall.noop /\ lastCall.pending = 1
    /\ ~isRunning
    /\ RanToCompletion(1)
    /\ dispatches[1].timerCalls # <<>>
    /\ Len(dispatches[1].results) = 3

\* C18: a handleEvent for an event type that no rule of the cache has as its
\* trigger returns at once with an empty list: no context is built, no
\* condition is evaluated and no action is invoked, then or later.
C18_NoMatchingRule ==
    \A d \in DOMAIN dispatches :
        LET dis == dispatches[d]
        IN (dis.kind = "event" /\ Triggered(dis.cacheAt, dis.eventType) = <<>>) =>
              /\ dis.pc = "done" /\ dis.results = <<>>
              /\ ~dis.contextBuilt
              /\ dis.rules = <<>> /\ dis.log = <<>> /\ dis.invoked = <<>>
              /\ dis.order = <<>> /\ dis.orders = <<>> /\ dis.inFlight = 0
              /\ dis.timerCalls = <<>> /\ dis.observed = <<>> /\ dis.observations = <<>>

\* C18 witness: an event of a type no cached rule is triggered by was
\* published on an engine whose cache is not empty, and its handleEvent has
\* returned the empty list.
C18_Witness ==
    /\ lastCall.op = "publish" /\ lastCall.started = 1
    /\ Len(rulesCache) > 0
    /\ dispatches[Len(dispatches)].cacheAt = rulesCache
    /\ dispatches[Len(dispatches)].rules = <<>>
    /\ dispatches[Len(dispatches)].pc = "done"

\* C19: a getStatus() call returns the engine's isRunning flag and the number
\* of rules in the cache as they are when it is called, and changes neither a
\* field of the engine, the bus' subscriptions, the repository, an activation
\* in flight nor the notification permission.
C19_GetStatusPure ==
    [][Calls("getStatus") =>
          /\ lastCall'.status = [isRunning |-> isRunning, ruleCount |-> Len(rulesCache)]
          /\ UNCHANGED <<isRunning, unsubscribers, rulesCache, rolloverHour,
                         subscriptions, dbRules, procs, dispatches, notification>>]_vars

\* C19 witness: getStatus() was called on a Stopped engine whose cache is not
\* empty and has returned a count that is not the number of enabled rules of
\* the repository.
C19_Witness ==
    /\ lastCall.op = "getStatus"
    /\ lastCall.status.ruleCount > 0
    /\ lastCall.status.ruleCount # Len(EnabledQuery(dbRules))
    /\ ~lastCall.status.isRunning
    /\ stoppedSince

\* The action is a START_TIMER whose params object has no activityId.
NoActivityId(action) ==
    /\ action.type = "START_TIMER"
    /\ action.params.t = "object"
    /\ "activityId" \notin DOMAIN action.params.v

\* C20: a START_TIMER action whose params have no activityId, once invoked,
\* gives the failed result with error "activityId gerekli", and its handler
\* never goes on to the timer store.
C20_StartTimerNeedsActivity ==
    \A d \in DOMAIN dispatches :
        LET dis == dispatches[d]
        IN /\ \A k \in DOMAIN dis.log : \A j \in DOMAIN dis.rules[k].actions :
                 NoActivityId(dis.rules[k].actions[j]) =>
                     /\ <<k, j>> \notin {dis.timerCalls[c] : c \in DOMAIN dis.timerCalls}
                     /\ dis.invoked[k] >= j =>
                           /\ Len(dis.log[k]) = j
                           /\ dis.log[k][j] =
                                 [actionType |-> "START_TIMER", success |-> FALSE,
                                  error |-> Msg("activityId gerekli"), data |-> Undef]
           /\ dis.pc = "timer" => ~NoActivityId(dis.rules[dis.ri].actions[dis.ai])

\* C20 witness: the START_TIMER action with params {} of a rule was invoked
\* and its rule's result carries the error "activityId gerekli", in a
\* dispatch where the timer store was reached for another rule only.
C20_Witness ==
    \E d \in DOMAIN dispatches :
        \E k \in DOMAIN dispatches[d].log :
            /\ Len(dispatches[d].rules[k].actions) >= 2
            /\ NoActivityId(dispatches[d].rules[k].actions[2])
            /\ dispatches[d].invoked[k] = 2
            /\ dispatches[d].results[k].error = Msg("activityId gerekli")
            /\ dispatches[d].timerCalls # <<>>
            /\ \A c \in DOMAIN dispatches[d].timerCalls : dispatches[d].timerCalls[c][1] # k

\* The action types executeAction has a handler for.
Registered == {"NOTIFY", "LOG_MESSAGE", "START_TIMER", "TRIGGER_BREAK"}

\* C21: an action whose type is none of the four registered ones, once
\* invoked, gets a failed result that names the type and carries an error
\* message; the handler does not raise; and the sequence stops there as for
\* any other failure: no later action is invoked, the results end with that
\* failure and the rule's result reports it.
C21_UnknownActionType ==
    \A d \in DOMAIN dispatches :
        LET dis == dispatches[d]
        IN \A k \in DOMAIN dis.log :
              LET own == dis.log[k]
                  actions == dis.rules[k].actions
              IN \A j \in DOMAIN actions :
                    (actions[j].type \notin Registered /\ dis.invoked[k] >= j) =>
                        /\ dis.invoked[k] = j
                        /\ Len(own) = j
                        /\ own[j].actionType = actions[j].type
                        /\ ~own[j].success
                        /\ HasText(own[j].error)
                        /\ dis.results[k].matched
                        /\ ~dis.results[k].actionsExecuted
                        /\ dis.results[k].error = own[j].error

\* C21 witness: a dispatch has returned in which the second of three actions
\* had an unregistered type: two results, the third action never invoked.
C21_Witness ==
    \E d \in DOMAIN dispatches :
        /\ dispatches[d].pc = "done"
        /\ \E k \in DOMAIN dispatches[d].log :
              /\ Len(dispatches[d].rules[k].actions) = 3
              /\ dispatches[d].rules[k].actions[2].type \notin Registered
              /\ dispatches[d].invoked[k] = 2
              /\ Len(dispatches[d].log[k]) = 2
              /\ dispatches[d].log[k][1].success

\* The evaluations of a rule whose one action is a NOTIFY, as <<d, k>>.
NotifyRuns ==
    {x \in (DOMAIN dispatches) \X (1..1) :
        /\ x[2] \in DOMAIN dispatches[x[1]].log
        /\ dispatches[x[1]].rules[x[2]].id = "r1"}

\* What the handler observed: the permission was granted when it was called,
\* or the request it made was answered with granted.
Granted(obs) == obs[1][1] = "granted" \/ (Len(obs) = 2 /\ obs[2][1] = "granted")

\* The Notification constructor threw when the handler reached it.
ConstructorThrew(obs) == obs[Len(obs)][2]

\* C22 as stated: a NOTIFY action returns a result and never raises; the
\* result is a success exactly when the permission was granted already or was
\* granted by the request made during the call; otherwise it is a failure
\* with an error message; and no request is made when the permission was
\* denied already.
C22_NotifyExactlyWhenGranted ==
    \A x \in NotifyRuns :
        LET obs == dispatches[x[1]].observations[x[2]]
            own == dispatches[x[1]].log[x[2]]
        IN /\ Len(own) = 1
           /\ own[1].success <=> Granted(obs)
           /\ ~own[1].success => HasText(own[1].error)
           /\ obs[1][1] = "denied" => Len(obs) = 1

\* C22 amended: as stated, except that with the permission granted the action
\* succeeds only if constructing the notification does not throw; when it
\* throws the result is a failure as well. A request is made only when the
\* permission was neither granted nor denied and the capability is there.
C22_NotifyOnlyWhenGranted ==
    \A x \in NotifyRuns :
        LET obs == dispatches[x[1]].observations[x[2]]
            own == dispatches[x[1]].log[x[2]]
        IN /\ Len(own) = 1
           /\ own[1].success <=> (Granted(obs) /\ ~ConstructorThrew(obs))
           /\ ~own[1].success => HasText(own[1].error)
           /\ obs[1][1] = "denied" => Len(obs) = 1
           /\ Len(obs) = 2 => obs[1][1] \notin {"granted", "denied", "absent"}

\* C22 witness: one NOTIFY succeeded after its request was granted, and
\* another, called with the permission granted, failed because the
\* constructor threw.
C22_Witness ==
    /\ \E x \in NotifyRuns :
          /\ Len(dispatches[x[1]].observations[x[2]]) = 2
          /\ dispatches[x[1]].log[x[2]][1].success
    /\ \E x \in NotifyRuns :
          /\ dispatches[x[1]].observations[x[2]][1][1] = "granted"
          /\ ConstructorThrew(dispatches[x[1]].observations[x[2]])
          /\ ~dispatches[x[1]].log[x[2]][1].success

\* C23: evaluateConditions returns true exactly when every condition of the
\* list evaluates to true: when all do it returns true, and whenever it
\* returns, its value is their conjunction; for the empty list it returns
\* true whatever the context.
C23_ConjunctionOfConditions ==
    (evaluation.fn = "evaluateConditions" /\ evaluation.pc # "called") =>
        LET conditions == evaluation.conditions
            context == buildContext(evaluation.payload)
            holds(i) == /\ ~evaluateConditionThrows(conditions[i])
                        /\ evaluateCondition(conditions[i], context)
            all == \A i \in DOMAIN conditions : holds(i)
        IN /\ all => (evaluation.pc = "returned" /\ evaluation.value)
           /\ evaluation.pc = "returned" => (evaluation.value <=> all)
           /\ conditions = <<>> => (evaluation.pc = "returned" /\ evaluation.value)

\* C23 witness: evaluateConditions has returned true for a list of two
\* conditions.
C23_Witness ==
    /\ evaluation.fn = "evaluateConditions"
    /\ evaluation.pc = "returned"
    /\ Len(evaluation.conditions) = 2
    /\ evaluation.value

\* The call made is evaluateCondition with a condition whose field is a path
\* and whose operator is in ops, and it is over.
Evaluated(ops) ==
    /\ evaluation.fn = "evaluateCondition"
    /\ evaluation.pc # "called"
    /\ evaluation.conditions[1].field.t = "string"
    /\ evaluation.conditions[1].operator \in ops

Compare(operator, a, b) ==
    CASE operator = "gt" -> a > b
      [] operator = "gte" -> a >= b
      [] operator = "lt" -> a < b
      [] operator = "lte" -> a <= b

\* C24: gt, gte, lt and lte return, without raising, false when the value the
\* field resolves to or the expected value is not a number (an absent field
\* included), and the numeric comparison of the two when both are numbers.
C24_OrderingNeedsNumbers ==
    Evaluated({"gt", "gte", "lt", "lte"}) =>
        LET actual == evaluation.actual
            expected == evaluation.conditions[1].value
        IN /\ evaluation.pc = "returned"
           /\ IF actual.t = "number" /\ expected.t = "number"
              THEN evaluation.value =
                       Compare(evaluation.conditions[1].operator, actual.v, expected.v)
              ELSE evaluation.value = FALSE

\* C24 witness: an ordering operator has returned false for a field that is
\* absent, against an expected number.
C24_Witness ==
    /\ Evaluated({"gt", "gte", "lt", "lte"})
    /\ evaluation.actual = Undef
    /\ evaluation.conditions[1].value.t = "number"
    /\ evaluation.pc = "returned"
    /\ ~evaluation.value

\* What the first n segments of a path lead to by property lookup.
RECURSIVE Reach(_, _, _)
Reach(obj, parts, n) ==
    IF n = 0 THEN obj ELSE GetProp(Reach(obj, parts, n - 1), parts[n])

\* Some segment before the last leads to a missing key, to null or to a value
\* that is not an object.
Unresolvable(payload, path) ==
    \E n \in 1..(Len(Split(path)) - 1) :
        Reach(Root(payload), Split(path), n).t \notin {"object", "array"}

\* C25: a path that cannot be resolved because a key on the way is missing,
\* null or not an object gives undefined, without raising; with such a field,
\* eq returns false and neq returns true against every expected value other
\* than undefined.
C25_UnresolvablePath ==
    /\ (/\ evaluation.fn = "getNestedValue"
        /\ evaluation.pc # "called"
        /\ Unresolvable(evaluation.payload, evaluation.path)) =>
            (evaluation.pc = "returned" /\ evaluation.actual = Undef)
    /\ (/\ Evaluated({"eq", "neq"})
        /\ Unresolvable(evaluation.payload, evaluation.conditions[1].field.v)
        /\ evaluation.conditions[1].value # Undef) =>
            /\ evaluation.pc = "returned"
            /\ evaluation.value = (evaluation.conditions[1].operator = "neq")

\* C25 witness: neq has returned true for a path that passes through a number.
C25_Witness ==
    /\ Evaluated({"neq"})
    /\ Reach(Root(evaluation.payload), Split(evaluation.conditions[1].field.v), 2).t = "number"
    /\ Len(Split(evaluation.conditions[1].field.v)) = 3
    /\ evaluation.conditions[1].value.t = "number"
    /\ evaluation.value

\* C26: contains returns true exactly when the resolved and the expected value
\* are both strings and the expected one is a substring of the resolved one,
\* or the resolved value is an array with the expected value among its
\* elements; for any other resolved value, undefined included, it returns
\* false.
C26_Contains ==
    Evaluated({"contains"}) =>
        LET actual == evaluation.actual
            expected == evaluation.conditions[1].value
        IN /\ evaluation.pc = "returned"
           /\ evaluation.value <=>
                 \/ /\ actual.t = "string" /\ expected.t = "string"
                    /\ \E k \in 0..(Len(actual.v) - Len(expected.v)) :
                          \A i \in 1..Len(expected.v) : actual.v[k + i] = expected.v[i]
                 \/ /\ actual.t = "array"
                    /\ \E k \in DOMAIN actual.v : actual.v[k] = expected

\* C26 witness: contains has returned true for an array that holds the
\* expected number.
C26_Witness ==
    /\ Evaluated({"contains"})
    /\ evaluation.actual.t = "array"
    /\ evaluation.conditions[1].value.t = "number"
    /\ evaluation.value

\* The evaluations of session-to-habit (one condition, payload.session.durationSec
\* gte 1800, and one LOG_MESSAGE action) for a SESSION_CREATED event, as <<d, k>>.
SessionRuns ==
    {x \in (DOMAIN dispatches) \X (1..1) :
        /\ dispatches[x[1]].eventType = "SESSION_CREATED"
        /\ x[2] \in DOMAIN dispatches[x[1]].results
        /\ dispatches[x[1]].rules[x[2]].id = "r5"}

DurationOf(dis) == dis.given.v.session.v.durationSec.v

\* C27: for a SESSION_CREATED event whose payload.session.durationSec is d,
\* the result of that rule has matched = true and actionsExecuted = true when
\* d >= 1800, and matched = false and actionsExecuted = false when d < 1800.
C27_SessionThreshold ==
    \A x \in SessionRuns :
        LET result == dispatches[x[1]].results[x[2]]
            long == DurationOf(dispatches[x[1]]) >= 1800
        IN /\ result.matched = long
           /\ result.actionsExecuted = long
           /\ Len(dispatches[x[1]].log[x[2]]) = IF long THEN 1 ELSE 0

\* C27 witness: the rule matched and ran its action for a session of exactly
\* 1800 seconds, and did neither for one of 1799 seconds.
C27_Witness ==
    /\ \E x \in SessionRuns :
          /\ DurationOf(dispatches[x[1]]) = 1800
          /\ dispatches[x[1]].results[x[2]].matched
          /\ dispatches[x[1]].results[x[2]].actionsExecuted
    /\ \E x \in SessionRuns :
          /\ DurationOf(dispatches[x[1]]) = 1799
          /\ ~dispatches[x[1]].results[x[2]].matched
          /\ ~dispatches[x[1]].results[x[2]].actionsExecuted

\* C28: when a createRule for a rule whose enabled flag was omitted or true
\* has completed and the cache is that of a reloadRules that succeeded, with
\* no write to the repository and no other load since, the cache holds the
\* rule: the enabled query selected the record createRule stored.
C28_CreatedRuleIsCached ==
    \A c \in DOMAIN storeCalls :
        LET call == storeCalls[c]
        IN (call.op = "createRule" /\ call.pc = "done" /\ Truthy(call.value) /\ fresh) =>
              \E k \in DOMAIN rulesCache : rulesCache[k].id = call.id

\* The toggleRule calls made on a rule the store holds.
TogglesOf(id) ==
    {c \in DOMAIN storeCalls :
        /\ storeCalls[c].op = "toggleRule"
        /\ storeCalls[c].id = id
        /\ storeCalls[c].read # Absent}

\* C29: once the only toggleRule call made on a rule has completed, the
\* rule's enabled flag in the repository and in the store is the opposite of
\* what it was; once the only two calls made on it have completed, it is what
\* it was, however the two calls overlapped.
C29_ToggleTwiceRestores ==
    \A id \in {i \in DOMAIN StoreDb : StoreDb[i] # Absent} :
        LET completed == \A c \in TogglesOf(id) : storeCalls[c].pc = "done"
            original == Truthy(StoreDb[id])
        IN /\ (Cardinality(TogglesOf(id)) = 1 /\ completed) =>
                 /\ Truthy(dbRules[id]) = ~original
                 /\ Truthy(storeRules[id]) = ~original
           /\ (Cardinality(TogglesOf(id)) = 2 /\ completed) =>
                 /\ Truthy(dbRules[id]) = original
                 /\ Truthy(storeRules[id]) = original

\* C30: within one activation of handleEvent the matching rules are taken one
\* at a time: when the conditions of a rule are about to be evaluated, every
\* rule before it has its result and no executeAction call of the activation
\* is unsettled; while an action runs, it is an action of the one rule that
\* has no result yet; and nothing is unsettled when the activation returns.
C30_OneRuleAtATime ==
    \A d \in DOMAIN dispatches :
        LET dis == dispatches[d]
        IN /\ dis.pc = "rule" =>
                 /\ dis.inFlight = 0
                 /\ Len(dis.results) = dis.ri - 1
                 /\ dis.actionResults = <<>>
           /\ dis.pc \in {"action", "permission", "timer"} =>
                 /\ Len(dis.results) = dis.ri - 1
                 /\ dis.inFlight = IF dis.pc = "action" THEN 0 ELSE 1
           /\ dis.pc = "done" => (dis.inFlight = 0 /\ Len(dis.results) = Len(dis.rules))
           /\ \A c \in DOMAIN dis.timerCalls :
                 dis.timerCalls[c][1] <= Len(dis.results) + 1

\* C30 witness: the conditions of the second rule of a dispatch are about to
\* be evaluated after the first rule had an action that awaited the timer
\* store.
C30_Witness ==
    \E d \in DOMAIN dispatches :
        /\ dispatches[d].kind = "event"
        /\ dispatches[d].pc = "rule"
        /\ dispatches[d].ri = 2
        /\ \E c \in DOMAIN dispatches[d].timerCalls : dispatches[d].timerCalls[c][1] = 1
        /\ dispatches[d].inFlight = 0
\* The activation d waits on a collaborator call that never settles.
Hung(d) == d \in DOMAIN dispatches /\ dispatches[d].pc = "hung"

\* The rules of activation d that have no result, and the actions of its
\* current rule that were not invoked.
RulesLeft(d) == Len(dispatches[d].rules) - Len(dispatches[d].results)
ActionsLeft(d) ==
    Len(dispatches[d].rules[dispatches[d].ri].actions) - dispatches[d].ai

\* C31: once a collaborator call of an activation never settles, the
\* activation stays as it is for ever, so the actions after the hung one and
\* the rules after the current one are never executed; every other
\* activation, started before or after it, goes on to return.
C31_HungCollaboratorStallsOneDispatch ==
    /\ [][\A d \in DOMAIN dispatches :
             Hung(d) => /\ dispatches'[d] = dispatches[d]
                        /\ RulesLeft(d) > 0]_vars
    /\ (dispatches # <<>>) ~>
          \A d \in DOMAIN dispatches : Hung(d) \/ RanToCompletion(d)

\* C31 witness: the first activation hangs on the timer store with an action
\* and a rule left, and the activation of a later event has returned with its
\* rules evaluated.
C31_Witness ==
    /\ Hung(1) /\ dispatches[1].timerCalls # <<>>
    /\ ActionsLeft(1) > 0 /\ RulesLeft(1) = 2
    /\ Len(dispatches) > 1 /\ RanToCompletion(2)
    /\ dispatches[2].results # <<>>

\* Every query issued by loadRules has settled.
QueriesSettled == \A p \in DOMAIN procs : procs[p].pc # "query"

\* C32: once the queries of overlapping loadRules and reloadRules calls have
\* all settled, the cache holds the result of the query issued last, if the
\* query that assigned the cache last did not reject.
C32_LastIssuedLoadWins ==
    QueriesSettled =>
        \A p \in DOMAIN procs :
            (procs[p].latest /\ ~procs[p].failed) =>
                /\ rulesCache = procs[p].snap
                /\ procs[p].current

\* The sequence a is the beginning of the sequence b.
IsPrefix(a, b) == Len(a) <= Len(b) /\ a = SubSeq(b, 1, Len(a))

\* The activation d of handleEvent is suspended at an await.
Suspended(d) == dispatches[d].pc \in {"context", "permission", "timer"}

\* C33: the rules an activation of handleEvent evaluates are the matching
\* rules of the cache as it was when the activation started, whatever is
\* assigned to the cache while the activation is suspended: the list never
\* changes, the results follow it rule by rule, and an activation that starts
\* takes the matching rules of the cache as it is then.
C33_RulesFixedAtStart ==
    [][\A d \in DOMAIN dispatches' :
          LET dis == dispatches'[d]
          IN /\ IsPrefix(ResultIdsOf(dis.results), RuleIdsOf(dis.rules))
             /\ dis.pc = "done" => Len(dis.results) = Len(dis.rules)
             /\ IF d \in DOMAIN dispatches
                THEN dis.rules = dispatches[d].rules
                ELSE dis.rules = Triggered(rulesCache, dis.eventType)]_vars

\* C33 witness: a reloadRules() has completed while the first activation was
\* suspended, and the cache now holds another rule of the trigger and lacks
\* one of the two the activation goes on with; the activation started since
\* has the rules of the new cache.
C33_Witness ==
    /\ Len(dispatches) = 2 /\ procs = <<>>
    /\ lastCall.op = "publish"
    /\ Suspended(1) /\ dispatches[1].pc = "permission"
    /\ RuleIdsOf(dispatches[1].rules) = <<"r1", "r3">>
    /\ RuleIdsOf(rulesCache) = <<"r1", "r2">>
    /\ RuleIdsOf(dispatches[2].rules) = <<"r1", "r2">>

\* initialize has returned, and so has every other call made on the store,
\* none of them with a rejected repository call.
StoreSettled ==
    /\ \E c \in DOMAIN storeCalls : storeCalls[c].op = "initialize"
    /\ \A c \in DOMAIN storeCalls : storeCalls[c].pc = "done"

\* C34: once initialize and every createRule, updateRule and deleteRule call
\* made have returned without an error, the store's list holds the rules of
\* the repository, each with the enabled value the repository holds.
C34_StoreMirrorsRepository == StoreSettled => storeRules = dbRules

\* The results of rules without actions, as <<d, k>>: result k of activation d.
EmptyRuns ==
    {x \in (DOMAIN dispatches) \X (1..Len(RuleIds)) :
        /\ x[2] \in DOMAIN dispatches[x[1]].results
        /\ dispatches[x[1]].rules[x[2]].actions = <<>>}

\* The conditions of rule k of the activation hold for its payload.
ConditionsHold(dis, k) ==
    LET outcome == evaluateConditions(dis.rules[k].conditions, buildContext(dis.payload))
    IN ~outcome.threw /\ outcome.value

\* C35: the result of a rule whose conditions hold and whose actions list is
\* empty has matched = true, actionsExecuted = true and no error, and no
\* action was invoked for it.
C35_EmptyActionList ==
    \A x \in EmptyRuns :
        LET dis == dispatches[x[1]]
            result == dis.results[x[2]]
        IN ConditionsHold(dis, x[2]) =>
              /\ result.matched /\ result.actionsExecuted
              /\ result.error = Undef
              /\ dis.invoked[x[2]] = 0
              /\ dis.log[x[2]] = <<>> /\ dis.orders[x[2]] = <<>>

\* C35 witness: the rule without actions has a result for a habit check
\* that satisfies its condition.
C35_Witness ==
    \E x \in EmptyRuns :
        /\ ConditionsHold(dispatches[x[1]], x[2])
        /\ dispatches[x[1]].rules[x[2]].id = "r8"
        /\ dispatches[x[1]].rules[x[2]].conditions # <<>>
        /\ dispatches[x[1]].pc = "done"

\* C36: a stop() call changes neither the rule cache nor the rollover hour,
\* so getStatus() reports after it the ruleCount it reported before; a
\* testRule called on the Stopped engine returns the one result of its rule,
\* matched as the rule's conditions hold for the payload given, and a
\* reloadRules called on it leaves the cache holding the enabled rules of the
\* repository, the query having succeeded and no other loadRules having
\* assigned the cache since.
C36_StopKeepsCache ==
    /\ [][Calls("stop") =>
             /\ UNCHANGED <<rulesCache, rolloverHour>>
             /\ getStatus'.ruleCount = getStatus.ruleCount
             /\ ~getStatus'.isRunning]_vars
    /\ [](\A d \in DOMAIN dispatches :
             dispatches[d].pc = "done" =>
                 /\ Len(dispatches[d].results) = 1
                 /\ dispatches[d].results[1].ruleId = dispatches[d].rules[1].id
                 /\ dispatches[d].results[1].matched = ConditionsHold(dispatches[d], 1)
                 /\ dispatches[d].results[1].actionsExecuted = ConditionsHold(dispatches[d], 1))
    /\ [](fresh => rulesCache = EnabledQuery(dbRules))

\* C36 witness: the engine was stopped with two rules cached; a testRule
\* called since has returned a matched result, and a reloadRules called since
\* has completed and replaced the cache, which getStatus() would now report.
C36_Witness ==
    /\ ~isRunning /\ stoppedSince
    /\ lastCall.op = "reloadDone" /\ fresh
    /\ RuleIdsOf(rulesCache) = <<"r1", "r2">>
    /\ getStatus = [isRunning |-> FALSE, ruleCount |-> 2]
    /\ \E d \in DOMAIN dispatches :
          /\ dispatches[d].kind = "test" /\ dispatches[d].pc = "done"
          /\ dispatches[d].results[1].matched
          /\ dispatches[d].log[1] # <<>>

====
